---- MODULE Spec2Model ----
(***************************************************************************)
(* CBTPlayer synchronization core: the MasterClock service                 *)
(* (src/renderer/services/MasterClock.ts) and the seek paths of the track  *)
(* managers that register with it.                                         *)
(*                                                                         *)
(* Times are integers in milliseconds.  `now` is the page's monotonic      *)
(* clock (performance.now()); Date.now() is the same clock shifted by      *)
(* DateEpoch.  The playback rate is kept in hundredths (100 = 1.0x).       *)
(***************************************************************************)
EXTENDS Integers, Sequences, FiniteSets, TLC

\* ------------------------------------------------------------------------
\* Bounds of the model
\* ------------------------------------------------------------------------
MaxNow == 300
MaxSeekCalls == 3
MaxFanoutCalls == 2
MaxClockNow == 1500
MaxRateNow == 900
MaxSyncNow == 750
MaxSyncSeeks == 1
MaxItems == 3
MaxListenerNow == 500
MaxListenerSeeks == 1
MaxRegistrySeeks == 1
MaxLoads == 2
MaxTrackLoads == 2
MaxSyncCalls == 3
MaxTrackNow == 2200
MaxSourceNow == 1500
DateEpoch == 1000
MaxManagerCalls == 2
MaxManagerNow == 150
MaxStopCalls == 2
MaxStopNow == 750
MaxIngestSeeks == 1
MaxIngestNow == 200
MaxFlightSeeks == 1
MaxFlightNow == 900
MaxMediaCalls == 4
MaxMediaNow == 300
MaxItemLoads == 3
MaxAudioNow == 300
MaxMetricSyncs == 102
MaxManifestTracks == 1
MaxDedupeSeeks == 2
MaxDedupeSyncs == 2
MaxDedupeNow == 2100
MaxManifestItems == 1

Handles == {"m1", "m2"}
OneHandle == {"m1"}
Durations == {1000}
Targets == {0, 2000}
Delays == {100}
ClockDelays == {300}
VideoTimes == {0, 600, 1000}
Rates == {0, 200, 500}
RateVideoTimes == {600}
SyncTargets == {500}
SyncDelays == {250}
ListenerIds == {"l1", "l2"}
Throwers == {"l1"}
ListenerRates == {200}
StopTargets == {0, 500}
StopDelays == {150}
FlightDelays == {300}
AudioTimes == {500, 1500}
MetricPositions == {300, 350}
DedupeTargets == {0, 500}
DedupeDelays == {1050}
LargeDriftAt == {0, 1, 50, 101}
ItemStarts == {0, 10, 20}
ItemEnds == {0, 10, 20, 30}
ItemDurations == {0, 10}
ProbeTimes == {0, 5, 10, 15, 20, 25, 30, 35}
SourceDurations == {3000}
SourceTimes == {-100, 0, 900, 1800, 2300, 4100}
Kinds == {"video", "audio", "subtitle", "html"}
TrackItems ==
  << [start_ms |-> 0, end_ms |-> 1000, duration_ms |-> 0],
     [start_ms |-> 1000, end_ms |-> 0, duration_ms |-> 1000] >>
LateItems ==
  << [start_ms |-> 1000, end_ms |-> 2000, duration_ms |-> 0] >>
LoadLists == {<<>>, TrackItems, LateItems}
GapItems ==
  << [start_ms |-> 0, end_ms |-> 0, duration_ms |-> 1000],
     [start_ms |-> 2000, end_ms |-> 3000, duration_ms |-> 0] >>
SyncLists == {GapItems}
SyncTimes == {400, 1500, 2400, 3500}
NativePositions == {350, 1000}
MediaDurations == {0, 1000}
TrackDelays == {1100}
LoadOutcomes == {"loaded", "error", "unreadable", "timeout"}
ManagerTargets == {500, 1500, 2500}
ManagerDelays == {50}

\* ------------------------------------------------------------------------
\* Program constants
\* ------------------------------------------------------------------------
NULL == 0
SEEK_TIMEOUT == 3000
SEEK_DEBOUNCE == 200
FOLLOWUP_DELAY == 100
RateScale == 100
VIDEO_STALE == 500
UI_UPDATE_INTERVAL == 100
SYNC_INTERVAL == 500
DURATION_SLACK == 1000
LARGE_JUMP == 1000
BACKWARD_JUMP == 500
RESET_GUARD == 1000
MIN_TIME_DIFF == 50
JUMP_WINDOW == 1000
VIDEO_THROTTLE == 100
UseVideoSync == TRUE
MAX_RATE == 400
NoItem == -1
NoTimeout == -1
MANAGER_DEBOUNCE == 100
VIDEO_LOAD_TIMEOUT == 5000
AUDIO_SEEK_TIMEOUT == 3000
HTML_LOAD_TIMEOUT == 2000
VIDEO_SYNC_TOLERANCE == 200
AUDIO_SYNC_TOLERANCE == 100
MAX_DRIFT_HISTORY == 100
VIDEO_CORRECTION_THROTTLE == 2000
VIDEO_CORRECTION_MIN == 500
VIDEO_END_SLACK == 500
CORRECTION_SETTLE == 500
AUDIO_SEEK_GUARD == 500
AUDIO_END_SLACK == 100
AUDIO_CORRECTION_MIN == 200
AUDIO_CORRECTION_GUARD == 1000

VARIABLES
  now,               \* wall clock (performance.now())
  currentTime,       \* MasterClock.currentTime
  duration,          \* MasterClock.duration
  playbackRate,      \* MasterClock.playbackRate, in hundredths
  isPlaying,         \* MasterClock.isPlaying
  startTime,         \* MasterClock.startTime
  managers,          \* MasterClock.managers
  isSeeking,         \* MasterClock.isSeeking
  lastSeekTime,      \* MasterClock.lastSeekTime
  lastSeekTimestamp, \* MasterClock.lastSeekTimestamp
  seekPromise,       \* MasterClock.seekPromise: NULL or the id of a fan-out
  fanouts,           \* the performSeek invocations that have not returned
  fanoutsStarted,    \* number of performSeek invocations so far
  lastDone,          \* the performSeek invocation that returned last
  timers,            \* deadlines of the pending 100 ms follow-up timers
  emitted,           \* the events the last step delivered to the listeners
  seekCalls,         \* number of seek() calls so far
  lastCall,          \* the last seek() call
  dupPair,           \* the last two seek() calls, when the second repeats the first
  seekEvents,        \* number of 'seek' events emitted so far
  lastUpdateTime,    \* MasterClock.lastUpdateTime
  animationFrameId,  \* MasterClock.animationFrameId: NULL or a request id
  rafPending,        \* the requested animation frame has not run yet
  syncInterval,      \* MasterClock.syncInterval: NULL or an interval id
  syncDue,           \* when the sync interval fires next
  lastVideoUpdateTime, \* MasterClock.lastVideoUpdateTime
  lastJumpTime,      \* MasterClock.lastJumpTime (undefined counts as 0)
  opCall,            \* the call of a clock operation that made the last step
  probe,             \* the last call of a function of utils/timeUtils.ts
  listeners,         \* MasterClock.listeners, in the order of subscription
  received,          \* the events each listener was called with in the last step
  alive,             \* the kinds whose manager is constructed and not destroyed
  track,             \* per manager: its source, its metrics, how load() ended
  mgr,               \* the fields of each track manager and its running seek
  seekQueue,         \* VideoJsManager.seekQueue: the promises chained by seek()
  mgrCalls,          \* number of seek() calls made on the managers
  lastSettled        \* the manager seek promise that settled last

vars == <<now, currentTime, duration, playbackRate, isPlaying, startTime,
          managers, isSeeking, lastSeekTime, lastSeekTimestamp, seekPromise,
          fanouts, fanoutsStarted, lastDone, timers, emitted, seekCalls,
          lastCall, dupPair, seekEvents, lastUpdateTime, animationFrameId,
          rafPending, syncInterval, syncDue, lastVideoUpdateTime, lastJumpTime,
          opCall, probe, listeners, received, alive, track, mgr, seekQueue,
          mgrCalls, lastSettled>>

clockVars == <<currentTime, duration, playbackRate, isPlaying, startTime>>
seekVars == <<isSeeking, lastSeekTime, lastSeekTimestamp, seekPromise, fanouts,
              fanoutsStarted, lastDone>>
callVars == <<seekCalls, lastCall, dupPair>>
loopVars == <<lastUpdateTime, animationFrameId, rafPending, syncInterval, syncDue>>
videoVars == <<lastVideoUpdateTime, lastJumpTime>>
masterVars == <<clockVars, seekVars, callVars, loopVars, videoVars, managers,
                timers, emitted, seekEvents, opCall, probe, listeners, received,
                alive, track>>
mgrVars == <<mgr, seekQueue, mgrCalls, lastSettled, probe, alive, track>>

\* ------------------------------------------------------------------------
\* Helpers
\* ------------------------------------------------------------------------
Min(a, b) == IF a < b THEN a ELSE b
Max(a, b) == IF a > b THEN a ELSE b
Abs(a) == IF a < 0 THEN 0 - a ELSE a

DateNow == DateEpoch + now

\* t / rate and e * rate for a rate kept in hundredths
DivRate(t, r) == (t * RateScale) \div r
MulRate(e, r) == (e * r) \div RateScale

ClockEvent(type, time, rate, playing) ==
  [type |-> type, time |-> time, playbackRate |-> rate, isPlaying |-> playing]

\* ------------------------------------------------------------------------
\* The per-manager wrapper promise of performSeek
\* ------------------------------------------------------------------------
SeekBehaviours == {"throws", "value", "promise"}

\* the wrapper's state right after manager.seek(clampedTime) was invoked
WrapperAfterInvoke(beh) ==
  CASE beh = "throws"  -> "rejected"   \* executor threw: the wrapper rejects
    [] beh = "value"   -> "resolved"   \* not a Promise: resolve at once
    [] beh = "promise" -> "pending"

\* what the wrapper becomes when the manager's promise resolves or rejects
WrapperOnSettle(ok) == IF ok THEN "resolved" ELSE "failed"

\* a timer callback that does not resolve the wrapper
WrapperOnTimeoutIgnored == "pending"

\* what the wrapper becomes when its SEEK_TIMEOUT timer fires first
WrapperOnTimeout == "timeout"

Settled(w) == w # "pending"

AllSettled(f) == \A m \in DOMAIN f.wrappers : Settled(f.wrappers[m])

\* Promise.all instead of Promise.allSettled, outside the try block
AwaitAllAsAll(ws) ==
  IF \E m \in DOMAIN ws : ws[m] = "rejected" THEN "rejected" ELSE "fulfilled"

\* outcome of `await Promise.allSettled(seekPromises)` inside the try block
AwaitAllSettled(ws) == "fulfilled"

NoSeek == [target |-> 0, phase |-> "idle", deadline |-> NoTimeout]

NoneSettled == [kind |-> "none", st |-> "none", cause |-> "none"]

NewManager ==
  [items            |-> <<>>,
   currentItemIndex |-> NoItem,
   lastSeekTime     |-> 0,
   lastStamp        |-> 0,
   isSeeking        |-> FALSE,
   active           |-> FALSE,
   element          |-> FALSE,
   run              |-> NoSeek]

\* the source and the metrics of a manager after construction: the
\* metrics 0 and the drift history empty; loads and syncs count the calls of
\* load() and sync(), sets the times the manager set the native position
\* the native source is paused, no play promise is held; pending holds the
\* native play promises that have not settled, each with the number of
\* pause callbacks chained to it; commands counts the calls of play() and
\* pause(); srcItem is the item whose file the audio element has as src,
\* lookups the calls of loadAudioAtIndex that wait for a file URL, itemLoads
\* counts those calls; samples holds every drift passed to updateSyncMetrics;
\* performed is the last call of VideoJsManager.performSeek: its target, the
\* time it began and whether it returned as a duplicate
NoPerform == [target |-> 0, at |-> 0 - 1, skipped |-> FALSE]

NewTrack ==
  [load         |-> "none",
   loads        |-> 0,
   syncs        |-> 0,
   syncedAt     |-> 0,
   position     |-> 0,
   sets         |-> 0,
   settleAt     |-> NoTimeout,
   drift        |-> 0,
   corrections  |-> 0,
   averageDrift |-> 0,
   maxDrift     |-> 0,
   driftHistory |-> <<>>,
   paused       |-> TRUE,
   playPromise  |-> NULL,
   pending      |-> {},
   plays        |-> 0,
   commands     |-> 0,
   lastCommand  |-> "none",
   srcItem      |-> NoItem,
   lookups      |-> {},
   itemLoads    |-> 0,
   samples      |-> <<>>,
   performed    |-> NoPerform]

\* no operation was called in the last step
NoOp == [op |-> "none", arg |-> 0, flag |-> FALSE]

\* no function of timeUtils was called yet
NoProbe == [items |-> <<>>, t |-> 0, found |-> -1, rel |-> 0]

\* the listeners in ls
ListenerSet(ls) == {ls[i] : i \in 1..Len(ls)}

\* the first listener of ls that throws, or none
FirstThrower(ls) ==
  IF \E i \in 1..Len(ls) : ls[i] \in Throwers
  THEN CHOOSE i \in 1..Len(ls) :
          ls[i] \in Throwers /\ \A j \in 1..(i - 1) : ls[j] \notin Throwers
  ELSE Len(ls) + 1

\* the loop over the listeners ends at the first one that throws
DeliverUnprotected(ls, events) ==
  [l \in ListenerSet(ls) |->
     IF events = <<>> THEN <<>>
     ELSE IF \E i \in 1..Len(ls) : ls[i] = l /\ i <= FirstThrower(ls)
          THEN <<events[1]>>
          ELSE <<>>]
\* emit(event) for each of events: every listener is called inside try/catch,
\* so every listener is called with every event
Deliver(ls, events) == [l \in ListenerSet(ls) |-> events]

\* emit() catches what a listener throws and returns
EmitCompletes(ls) == TRUE

NoCall == [target |-> 0, at |-> 0, started |-> FALSE, inflight |-> FALSE]
NoFanout == [id |-> 0, target |-> 0, outcomes |-> {}, result |-> "none"]

\* what is remembered of a performSeek invocation that returned
Done(f, result) ==
  [id |-> f.id, target |-> f.target,
   outcomes |-> {f.wrappers[m] : m \in DOMAIN f.wrappers}, result |-> result]

\* ------------------------------------------------------------------------
\* Initial state: a freshly constructed MasterClock
\* ------------------------------------------------------------------------
Init ==
  /\ now = 0
  /\ currentTime = 0
  /\ duration = 0
  /\ playbackRate = RateScale
  /\ isPlaying = FALSE
  /\ startTime = 0
  /\ managers = {}
  /\ isSeeking = FALSE
  /\ lastSeekTime = 0
  /\ lastSeekTimestamp = 0
  /\ seekPromise = NULL
  /\ fanouts = {}
  /\ fanoutsStarted = 0
  /\ lastDone = NoFanout
  /\ timers = <<>>
  /\ emitted = <<>>
  /\ seekCalls = 0
  /\ lastCall = NoCall
  /\ dupPair = <<>>
  /\ seekEvents = 0
  /\ lastUpdateTime = 0
  /\ animationFrameId = NULL
  /\ rafPending = FALSE
  /\ syncInterval = NULL
  /\ syncDue = 0
  /\ lastVideoUpdateTime = 0
  /\ lastJumpTime = 0
  /\ opCall = NoOp
  /\ probe = NoProbe
  /\ listeners = <<>>
  /\ received = <<>>
  /\ alive = {}
  /\ track = [k \in Kinds |-> NewTrack]
  /\ mgr = [k \in Kinds |-> NewManager]
  /\ seekQueue = <<>>
  /\ mgrCalls = 0
  /\ lastSettled = NoneSettled

\* ------------------------------------------------------------------------
\* registerManager / initialize
\* ------------------------------------------------------------------------
RegisterManager(m) ==
  /\ UNCHANGED <<mgrVars, listeners>>
  /\ opCall' = NoOp
  /\ managers' = managers \cup {m}
  /\ emitted' = <<>>
  /\ UNCHANGED <<loopVars, videoVars, now, clockVars, seekVars, timers, callVars, seekEvents>>
  /\ received' = Deliver(listeners, emitted')

Initialize(durationMs) ==
  /\ UNCHANGED <<mgrVars, listeners>>
  /\ opCall' = NoOp
  /\ duration' = durationMs
  /\ currentTime' = 0
  /\ isPlaying' = FALSE
  /\ playbackRate' = RateScale
  /\ animationFrameId' = NULL      \* stopUpdateLoop
  /\ rafPending' = FALSE
  /\ emitted' = <<>>
  /\ UNCHANGED <<now, startTime, managers, seekVars, timers, callVars, seekEvents,
                 lastUpdateTime, syncInterval, syncDue, videoVars>>
  /\ received' = Deliver(listeners, emitted')

\* ------------------------------------------------------------------------
\* seek / performSeek
\* ------------------------------------------------------------------------
\* no debounce of repeated targets
IsDuplicateSeekNever(clampedTime, dnow) == FALSE

IsDuplicateSeek(clampedTime, dnow) ==
  Abs(clampedTime - lastSeekTime) < 1 /\ (dnow - lastSeekTimestamp) < SEEK_DEBOUNCE

\* no in-flight check
AlreadySeekingNever == FALSE

AlreadySeeking == isSeeking /\ seekPromise # NULL

\* bookkeeping of the seek() calls
RecordCall(clampedTime, started) ==
  /\ seekCalls' = seekCalls + 1
  /\ lastCall' = [target |-> clampedTime, at |-> DateNow, started |-> started,
                  inflight |-> fanouts # {}]
  /\ dupPair' = IF /\ seekCalls > 0
                   /\ lastCall.target = clampedTime
                   /\ DateNow - lastCall.at < SEEK_DEBOUNCE
                THEN <<lastCall.started, started>>
                ELSE <<>>

\* seek(timeMs), including the synchronous part of performSeek: beh gives,
\* for every registered manager, what its seek() does when invoked
Seek(timeMs, beh) ==
  LET clampedTime == Max(0, Min(timeMs, duration)) IN
  /\ UNCHANGED <<mgrVars, listeners>>
  /\ opCall' = NoOp
  /\ emitted' = <<>>
  /\ IF IsDuplicateSeek(clampedTime, DateNow) \/ AlreadySeeking
     THEN /\ RecordCall(clampedTime, FALSE)
          /\ UNCHANGED <<now, clockVars, managers, seekVars, timers, seekEvents,
                         loopVars, videoVars>>
     ELSE /\ RecordCall(clampedTime, TRUE)
          /\ lastSeekTime' = clampedTime
          /\ lastSeekTimestamp' = DateNow
          /\ isSeeking' = TRUE
          /\ currentTime' = clampedTime
          /\ startTime' = IF isPlaying
                          THEN now - DivRate(clampedTime, playbackRate)
                          ELSE startTime
          /\ fanoutsStarted' = fanoutsStarted + 1
          /\ fanouts' = fanouts \cup
                 {[id       |-> fanoutsStarted + 1,
                   target   |-> clampedTime,
                   before   |-> currentTime,
                   wrappers |-> [m \in managers |-> WrapperAfterInvoke(beh[m])],
                   deadline |-> now + SEEK_TIMEOUT]}
          /\ seekPromise' = fanoutsStarted + 1
          /\ UNCHANGED <<now, duration, playbackRate, isPlaying, managers,
                         lastDone, timers, seekEvents, loopVars, videoVars>>
  /\ received' = Deliver(listeners, emitted')

SetWrapper(f, m, w) == [f EXCEPT !.wrappers[m] = w]

\* a manager's seek promise resolves (ok) or rejects (~ok)
ManagerSettle(f, m, ok) ==
  /\ UNCHANGED <<mgrVars, listeners>>
  /\ opCall' = NoOp
  /\ f \in fanouts
  /\ m \in DOMAIN f.wrappers
  /\ f.wrappers[m] = "pending"
  /\ fanouts' = (fanouts \ {f}) \cup {SetWrapper(f, m, WrapperOnSettle(ok))}
  /\ emitted' = <<>>
  /\ UNCHANGED <<loopVars, videoVars, now, clockVars, managers, isSeeking, lastSeekTime,
                 lastSeekTimestamp, seekPromise, fanoutsStarted, lastDone,
                 timers, callVars, seekEvents>>
  /\ received' = Deliver(listeners, emitted')

\* a performSeek invocation can continue: promise continuations run before
\* any timer callback
ContinuationReady == \E f \in fanouts : AllSettled(f)

\* the SEEK_TIMEOUT timer of one wrapper fires
SeekTimeout(f, m) ==
  /\ UNCHANGED <<mgrVars, listeners>>
  /\ opCall' = NoOp
  /\ f \in fanouts
  /\ m \in DOMAIN f.wrappers
  /\ f.wrappers[m] = "pending"
  /\ now >= f.deadline
  /\ ~ContinuationReady
  /\ fanouts' = (fanouts \ {f}) \cup {SetWrapper(f, m, WrapperOnTimeout)}
  /\ emitted' = <<>>
  /\ UNCHANGED <<loopVars, videoVars, now, clockVars, managers, isSeeking, lastSeekTime,
                 lastSeekTimestamp, seekPromise, fanoutsStarted, lastDone,
                 timers, callVars, seekEvents>>
  /\ received' = Deliver(listeners, emitted')

\* performSeek continues after `await Promise.allSettled(seekPromises)`
PerformSeekResume(f) ==
  /\ UNCHANGED <<mgrVars, listeners>>
  /\ opCall' = NoOp
  /\ f \in fanouts
  /\ AllSettled(f)
  /\ fanouts' = fanouts \ {f}
  /\ IF AwaitAllSettled(f.wrappers) = "fulfilled"
     THEN /\ emitted' = <<ClockEvent("seek", currentTime, playbackRate, isPlaying)>>
          /\ seekEvents' = seekEvents + 1
          /\ isSeeking' = IF EmitCompletes(listeners) THEN FALSE ELSE isSeeking
          /\ seekPromise' = IF EmitCompletes(listeners) THEN NULL ELSE seekPromise
          /\ timers' = IF EmitCompletes(listeners)
                       THEN Append(timers, now + FOLLOWUP_DELAY)
                       ELSE timers
          /\ lastDone' = Done(f, IF EmitCompletes(listeners)
                                 THEN "resolved" ELSE "rejected")
     ELSE /\ emitted' = <<>>
          /\ lastDone' = Done(f, "rejected")
          /\ UNCHANGED <<seekEvents, isSeeking, seekPromise, timers>>
  /\ UNCHANGED <<loopVars, videoVars, now, clockVars, managers, lastSeekTime, lastSeekTimestamp,
                 fanoutsStarted, callVars>>
  /\ received' = Deliver(listeners, emitted')

\* a follow-up callback without the isSeeking test
FollowUpEventsUnguarded ==
  <<ClockEvent("timeupdate", currentTime, playbackRate, isPlaying)>>

\* the events of the follow-up callback set at the end of performSeek
FollowUpEvents ==
  IF ~isSeeking
  THEN <<ClockEvent("timeupdate", currentTime, playbackRate, isPlaying)>>
  ELSE <<>>

\* the oldest follow-up timer fires (equal delays: timers fire in order)
FollowUp ==
  /\ UNCHANGED <<mgrVars, listeners>>
  /\ opCall' = NoOp
  /\ timers # <<>>
  /\ now >= Head(timers)
  /\ ~ContinuationReady
  /\ timers' = Tail(timers)
  /\ emitted' = FollowUpEvents
  /\ UNCHANGED <<loopVars, videoVars, now, clockVars, managers, seekVars, callVars, seekEvents>>
  /\ received' = Deliver(listeners, emitted')

\* ------------------------------------------------------------------------
\* play / pause and the update loop
\* ------------------------------------------------------------------------
\* the constructor of a manager of kind k calls masterClock.registerManager(this)
RegistersItself(k) == k \in {"video", "audio", "subtitle"}

\* destroy() of a manager of kind k calls masterClock.unregisterManager(this)
UnregistersItself(k) == k \in {"video", "audio", "subtitle"}

\* new VideoJsManager / AudioManager / SubtitleManager / HtmlManager
Construct(k) ==
  /\ k \notin alive
  /\ alive' = alive \cup {k}
  /\ managers' = IF RegistersItself(k) THEN managers \cup {k} ELSE managers
  /\ emitted' = <<>>
  /\ received' = Deliver(listeners, emitted')
  /\ opCall' = [op |-> "construct", arg |-> 0, flag |-> FALSE]
  /\ UNCHANGED <<now, clockVars, seekVars, callVars, loopVars, videoVars,
                 timers, seekEvents, probe, listeners, track, mgr, seekQueue,
                 mgrCalls, lastSettled>>

\* destroy() of the manager of kind k
Destroy(k) ==
  /\ k \in alive
  /\ alive' = alive \ {k}
  /\ managers' = IF UnregistersItself(k) THEN managers \ {k} ELSE managers
  /\ emitted' = <<>>
  /\ received' = Deliver(listeners, emitted')
  /\ opCall' = [op |-> "destroy", arg |-> 0, flag |-> FALSE]
  /\ UNCHANGED <<now, clockVars, seekVars, callVars, loopVars, videoVars,
                 timers, seekEvents, probe, listeners, track, mgr, seekQueue,
                 mgrCalls, lastSettled>>

\* subscribe(listener)
Subscribe(l) ==
  /\ listeners' = IF l \in ListenerSet(listeners) THEN listeners
                  ELSE Append(listeners, l)
  /\ received' = [k \in ListenerSet(listeners') |-> <<>>]
  /\ emitted' = <<>>
  /\ opCall' = NoOp
  /\ UNCHANGED <<now, clockVars, seekVars, callVars, loopVars, videoVars,
                 managers, timers, seekEvents, probe, alive, track, mgr, seekQueue,
                 mgrCalls, lastSettled>>

\* the start of the extrapolation is left where it was
RebasedStartKept(pos, rate) == startTime

\* startTime = performance.now() - currentTime / playbackRate
RebasedStart(pos, rate) == now - DivRate(pos, rate)

\* play(); startUpdateLoop and startSyncInterval included
Play ==
  /\ UNCHANGED <<mgrVars, listeners>>
  /\ opCall' = NoOp
  /\ ~isPlaying
  /\ isPlaying' = TRUE
  /\ startTime' = RebasedStart(currentTime, playbackRate)
  /\ lastUpdateTime' = now
  /\ emitted' = <<ClockEvent("play", currentTime, playbackRate, TRUE)>>
  /\ IF EmitCompletes(listeners) /\ animationFrameId = NULL
     THEN animationFrameId' = 1 /\ rafPending' = TRUE
     ELSE UNCHANGED <<animationFrameId, rafPending>>
  /\ IF EmitCompletes(listeners) /\ syncInterval = NULL
     THEN syncInterval' = 1 /\ syncDue' = now + SYNC_INTERVAL
     ELSE UNCHANGED <<syncInterval, syncDue>>
  /\ UNCHANGED <<now, currentTime, duration, playbackRate, managers, seekVars,
                 timers, callVars, seekEvents, videoVars>>
  /\ received' = Deliver(listeners, emitted')

\* pause(); stopUpdateLoop and stopSyncInterval included
Pause ==
  /\ UNCHANGED <<mgrVars, listeners>>
  /\ opCall' = NoOp
  /\ isPlaying
  /\ isPlaying' = FALSE
  /\ animationFrameId' = NULL
  /\ rafPending' = FALSE
  /\ syncInterval' = NULL
  /\ emitted' = <<ClockEvent("pause", currentTime, playbackRate, FALSE)>>
  /\ UNCHANGED <<now, currentTime, duration, playbackRate, startTime, managers,
                 seekVars, timers, callVars, seekEvents, lastUpdateTime, syncDue,
                 videoVars>>
  /\ received' = Deliver(listeners, emitted')

\* stop(): pause(), then seek(0) with the synchronous part of performSeek;
\* beh gives what each registered manager's seek() does when invoked
Stop(beh) ==
  LET dropped == IsDuplicateSeek(0, DateNow) \/ AlreadySeeking IN
  /\ UNCHANGED <<mgrVars, listeners>>
  /\ opCall' = [op |-> "stop", arg |-> 0, flag |-> dropped]
  /\ isPlaying' = FALSE
  /\ IF isPlaying
     THEN /\ animationFrameId' = NULL
          /\ rafPending' = FALSE
          /\ syncInterval' = NULL
          /\ emitted' = <<ClockEvent("pause", currentTime, playbackRate, FALSE)>>
     ELSE /\ emitted' = <<>>
          /\ UNCHANGED <<animationFrameId, rafPending, syncInterval>>
  /\ IF dropped
     THEN /\ RecordCall(0, FALSE)
          /\ UNCHANGED <<currentTime, seekVars>>
     ELSE /\ RecordCall(0, TRUE)
          /\ lastSeekTime' = 0
          /\ lastSeekTimestamp' = DateNow
          /\ isSeeking' = TRUE
          /\ currentTime' = 0
          /\ fanoutsStarted' = fanoutsStarted + 1
          /\ fanouts' = fanouts \cup
                 {[id       |-> fanoutsStarted + 1,
                   target   |-> 0,
                   before   |-> currentTime,
                   wrappers |-> [m \in managers |-> WrapperAfterInvoke(beh[m])],
                   deadline |-> now + SEEK_TIMEOUT]}
          /\ seekPromise' = fanoutsStarted + 1
          /\ UNCHANGED lastDone
  /\ UNCHANGED <<now, duration, playbackRate, startTime, managers, timers,
                 seekEvents, lastUpdateTime, syncDue, videoVars>>
  /\ received' = Deliver(listeners, emitted')

\* every rate passes the test
ValidRateAny(rate) == TRUE
\* the test of setPlaybackRate
ValidRate(rate) == ~(rate <= 0 \/ rate > MAX_RATE)

\* setPlaybackRate(rate), the rate in hundredths
SetPlaybackRate(rate) ==
  /\ UNCHANGED <<mgrVars, listeners>>
  /\ opCall' = [op |-> "setPlaybackRate", arg |-> rate, flag |-> FALSE]
  /\ IF ~ValidRate(rate)
     THEN /\ emitted' = <<>>
          /\ UNCHANGED clockVars
     ELSE LET cur == IF isPlaying
                     THEN MulRate(now - startTime, playbackRate)
                     ELSE currentTime
          IN /\ currentTime' = cur
             /\ startTime' = IF isPlaying THEN now - DivRate(cur, rate)
                             ELSE startTime
             /\ playbackRate' = rate
             /\ emitted' = <<ClockEvent("ratechange", cur, rate, isPlaying)>>
             /\ UNCHANGED <<duration, isPlaying>>
  /\ UNCHANGED <<now, managers, seekVars, timers, callVars, seekEvents, loopVars,
                 videoVars>>
  /\ received' = Deliver(listeners, emitted')

\* the position update() computes itself when the video has not reported
SelfDriven == ~UseVideoSync \/ now - lastVideoUpdateTime > VIDEO_STALE

\* update(): the requested animation frame runs
Update ==
  /\ UNCHANGED <<mgrVars, listeners>>
  /\ opCall' = [op |-> "update", arg |-> 0, flag |-> FALSE]
  /\ rafPending
  /\ IF isSeeking
     THEN /\ rafPending' = isPlaying
          /\ animationFrameId' = IF isPlaying THEN 1 ELSE animationFrameId
          /\ emitted' = <<>>
          /\ UNCHANGED <<clockVars, lastUpdateTime, syncInterval, syncDue>>
     ELSE IF ~isPlaying
     THEN /\ rafPending' = FALSE
          /\ emitted' = <<>>
          /\ UNCHANGED <<clockVars, lastUpdateTime, animationFrameId,
                         syncInterval, syncDue>>
     ELSE LET elapsed == MulRate(now - startTime, playbackRate)
              cur == IF SelfDriven THEN Min(elapsed, duration) ELSE currentTime
          IN IF SelfDriven /\ cur >= duration
             THEN /\ currentTime' = duration
                  /\ isPlaying' = FALSE         \* pause()
                  /\ animationFrameId' = NULL
                  /\ rafPending' = FALSE
                  /\ syncInterval' = NULL
                  /\ emitted' = <<ClockEvent("pause", duration, playbackRate, FALSE),
                                  ClockEvent("ended", duration, playbackRate, FALSE)>>
                  /\ UNCHANGED <<duration, playbackRate, startTime,
                                 lastUpdateTime, syncDue>>
             ELSE /\ currentTime' = cur
                  /\ IF now - lastUpdateTime >= UI_UPDATE_INTERVAL
                     THEN /\ emitted' = <<ClockEvent("timeupdate", cur, playbackRate, TRUE)>>
                          /\ lastUpdateTime' = now
                     ELSE /\ emitted' = <<>>
                          /\ UNCHANGED lastUpdateTime
                  /\ rafPending' = TRUE
                  /\ animationFrameId' = 1
                  /\ UNCHANGED <<duration, playbackRate, isPlaying, startTime,
                                 syncInterval, syncDue>>
  /\ UNCHANGED <<now, managers, seekVars, timers, callVars, seekEvents, videoVars>>
  /\ received' = Deliver(listeners, emitted')

\* a Sync event on every tick of the interval
SyncEventsUnguarded == <<ClockEvent("sync", currentTime, playbackRate, isPlaying)>>
\* the events of one tick of the sync interval
SyncEvents ==
  IF isPlaying /\ ~isSeeking
  THEN <<ClockEvent("sync", currentTime, playbackRate, isPlaying)>>
  ELSE <<>>

\* the callback of the sync interval
SyncTick ==
  /\ UNCHANGED <<mgrVars, listeners>>
  /\ opCall' = [op |-> "syncTick", arg |-> 0, flag |-> FALSE]
  /\ syncInterval # NULL
  /\ now >= syncDue
  /\ syncDue' = syncDue + SYNC_INTERVAL
  /\ emitted' = SyncEvents
  /\ UNCHANGED <<now, clockVars, managers, seekVars, timers, callVars, seekEvents,
                 lastUpdateTime, animationFrameId, rafPending, syncInterval,
                 videoVars>>
  /\ received' = Deliver(listeners, emitted')

\* ------------------------------------------------------------------------
\* updateTimeFromVideo
\* ------------------------------------------------------------------------
IsLargeJump(timeMs) == Abs(currentTime - timeMs) > LARGE_JUMP
IsBackwardJump(timeMs) == timeMs < currentTime - BACKWARD_JUMP
SuspectJump(timeMs) == IsLargeJump(timeMs) \/ IsBackwardJump(timeMs)

\* the reported time is not on the timeline
OutOfRange(timeMs) == timeMs < 0 \/ timeMs > duration + DURATION_SLACK

\* no report of 0 counts as a reset
IsResetToZeroNever(timeMs) == FALSE
\* a report of exactly 0 while the position is well past the start
IsResetToZero(timeMs) == timeMs = 0 /\ currentTime > RESET_GUARD

\* no report is turned away because of a seek
IgnoredWhileSeekingNever == FALSE
\* if (this.isSeeking) return
IgnoredWhileSeeking == isSeeking

\* the update passes every test of updateTimeFromVideo
VideoUpdateAdopted(timeMs, isVideoPlaying) ==
  /\ ~IgnoredWhileSeeking
  /\ UseVideoSync
  /\ ~OutOfRange(timeMs)
  /\ ~IsResetToZero(timeMs)
  /\ \/ Abs(currentTime - timeMs) > MIN_TIME_DIFF
     \/ isPlaying # isVideoPlaying
     \/ SuspectJump(timeMs)
  /\ ~(SuspectJump(timeMs) /\ now - lastJumpTime < JUMP_WINDOW)

UpdateTimeFromVideo(timeMs, isVideoPlaying) ==
  /\ UNCHANGED <<mgrVars, listeners>>
  /\ opCall' = [op |-> "updateTimeFromVideo", arg |-> timeMs, flag |-> isVideoPlaying]
  /\ IF VideoUpdateAdopted(timeMs, isVideoPlaying)
     THEN /\ lastJumpTime' = IF SuspectJump(timeMs) THEN now ELSE lastJumpTime
          /\ currentTime' = timeMs
          /\ isPlaying' = isVideoPlaying
          /\ startTime' = IF isPlaying # isVideoPlaying /\ isVideoPlaying
                          THEN now - DivRate(timeMs, playbackRate)
                          ELSE startTime
          /\ IF SuspectJump(timeMs) \/ now - lastVideoUpdateTime > VIDEO_THROTTLE
             THEN /\ lastVideoUpdateTime' = now
                  /\ emitted' = <<ClockEvent("timeupdate", timeMs, playbackRate,
                                             isVideoPlaying)>>
             ELSE /\ emitted' = <<>>
                  /\ UNCHANGED lastVideoUpdateTime
          /\ UNCHANGED <<duration, playbackRate>>
     ELSE /\ emitted' = <<>>
          /\ UNCHANGED <<clockVars, videoVars>>
  /\ UNCHANGED <<now, managers, seekVars, timers, callVars, seekEvents, loopVars>>
  /\ received' = Deliver(listeners, emitted')

\* ------------------------------------------------------------------------
\* Passage of time.  Promise continuations run before the clock moves on.
\* ------------------------------------------------------------------------
\* the deadlines of the timers that are set
Deadlines ==
  {f.deadline : f \in {g \in fanouts : ~AllSettled(g)}}
    \cup {timers[k] : k \in 1..Len(timers)}

\* a short while passes
AdvanceTime(d) ==
  /\ UNCHANGED <<mgrVars, listeners>>
  /\ opCall' = NoOp
  /\ ~ContinuationReady
  /\ now' = now + d
  /\ emitted' = <<>>
  /\ UNCHANGED <<loopVars, videoVars, clockVars, managers, seekVars, timers, callVars, seekEvents>>
  /\ received' = Deliver(listeners, emitted')

\* nothing happens until the next timer is due
AdvanceToDeadline ==
  /\ UNCHANGED <<mgrVars, listeners>>
  /\ opCall' = NoOp
  /\ ~ContinuationReady
  /\ \E t \in Deadlines :
        /\ t > now
        /\ \A u \in Deadlines : u > now => t <= u
        /\ now' = t
  /\ emitted' = <<>>
  /\ UNCHANGED <<loopVars, videoVars, clockVars, managers, seekVars, timers, callVars, seekEvents>>
  /\ received' = Deliver(listeners, emitted')

\* ------------------------------------------------------------------------
\* The coordinated-seek protocol: the managers in H register, one
\* presentation is loaded, then at most K seeks are issued while time passes
\* ------------------------------------------------------------------------
Protocol(H, K) ==
  \/ \E m \in H : m \notin managers /\ duration = 0 /\ RegisterManager(m)
  \/ \E d \in Durations : duration = 0 /\ Initialize(d)
  \/ \E t \in Targets : \E beh \in [managers -> SeekBehaviours] :
        duration # 0 /\ seekCalls < K /\ Seek(t, beh)
  \/ \E f \in fanouts : \E m \in H : \E ok \in BOOLEAN : ManagerSettle(f, m, ok)
  \/ \E f \in fanouts : \E m \in H : SeekTimeout(f, m)
  \/ \E f \in fanouts : PerformSeekResume(f)
  \/ FollowUp
  \/ \E d \in Delays : duration # 0 /\ now + d <= MaxNow /\ AdvanceTime(d)
  \/ AdvanceToDeadline

\* seeks against one manager
Next == Protocol(OneHandle, MaxSeekCalls)

Spec == Init /\ [][Next]_vars

\* the fan-out to several managers
FanoutNext == Protocol(Handles, MaxFanoutCalls)

FanoutSpec == Init /\ [][FanoutNext]_vars

\* the fan-out when timers fire, continuations run and time passes; nothing
\* is assumed about the managers' promises
FairFanoutSpec ==
  /\ FanoutSpec
  /\ WF_vars(AdvanceToDeadline)
  /\ WF_vars(\E f \in fanouts : \E m \in Handles : SeekTimeout(f, m))
  /\ WF_vars(\E f \in fanouts : PerformSeekResume(f))

\* playback of one presentation: commands, animation frames, the sync
\* interval and the reports of the video while time passes
ClockNext ==
  \/ \E d \in Durations : duration = 0 /\ Initialize(d)
  \/ duration # 0 /\ Play
  \/ Pause
  \/ Update
  \/ SyncTick
  \/ \E t \in VideoTimes : \E p \in BOOLEAN :
        duration # 0 /\ UpdateTimeFromVideo(t, p)
  \/ \E d \in ClockDelays : duration # 0 /\ now + d <= MaxClockNow /\ AdvanceTime(d)

ClockSpec == Init /\ [][ClockNext]_vars

\* the reports of the video, playing or paused, while time passes
SourceNext ==
  \/ \E d \in SourceDurations : duration = 0 /\ Initialize(d)
  \/ \E t \in SourceTimes : \E p \in BOOLEAN :
        duration # 0 /\ UpdateTimeFromVideo(t, p)
  \/ \E d \in ClockDelays : duration # 0 /\ now + d <= MaxSourceNow /\ AdvanceTime(d)

SourceSpec == Init /\ [][SourceNext]_vars

\* playback with the sync interval while seeks are coordinated
SyncNext ==
  \/ \E m \in OneHandle : m \notin managers /\ duration = 0 /\ RegisterManager(m)
  \/ \E d \in Durations : duration = 0 /\ Initialize(d)
  \/ duration # 0 /\ Play
  \/ Pause
  \/ Update
  \/ SyncTick
  \/ \E t \in SyncTargets : \E beh \in [managers -> SeekBehaviours] :
        duration # 0 /\ seekCalls < MaxSyncSeeks /\ Seek(t, beh)
  \/ \E f \in fanouts : \E m \in OneHandle : \E ok \in BOOLEAN : ManagerSettle(f, m, ok)
  \/ \E f \in fanouts : \E m \in OneHandle : SeekTimeout(f, m)
  \/ \E f \in fanouts : PerformSeekResume(f)
  \/ FollowUp
  \/ \E d \in SyncDelays : duration # 0 /\ now + d <= MaxSyncNow /\ AdvanceTime(d)
  \/ AdvanceToDeadline

SyncSpec == Init /\ [][SyncNext]_vars

\* coordinated seeks while the managers are constructed and destroyed
RegistryNext ==
  \/ \E k \in Kinds : Construct(k)
  \/ \E k \in Kinds : Destroy(k)
  \/ \E d \in Durations : duration = 0 /\ Initialize(d)
  \/ \E t \in SyncTargets : \E beh \in [managers -> {"value"}] :
        duration # 0 /\ seekCalls < MaxRegistrySeeks /\ Seek(t, beh)
  \/ \E f \in fanouts : PerformSeekResume(f)
  \/ FollowUp
  \/ AdvanceToDeadline

RegistrySpec == Init /\ [][RegistryNext]_vars

\* playback and a coordinated seek in front of the subscribed listeners
ListenerNext ==
  \/ \E l \in ListenerIds : duration = 0 /\ Subscribe(l)
  \/ \E d \in Durations : duration = 0 /\ Initialize(d)
  \/ duration # 0 /\ Play
  \/ Pause
  \/ Update
  \/ SyncTick
  \/ \E t \in RateVideoTimes : \E p \in BOOLEAN :
        duration # 0 /\ UpdateTimeFromVideo(t, p)
  \/ \E r \in ListenerRates : duration # 0 /\ SetPlaybackRate(r)
  \/ \E t \in SyncTargets : \E beh \in [managers -> {"value"}] :
        duration # 0 /\ seekCalls < MaxListenerSeeks /\ Seek(t, beh)
  \/ \E f \in fanouts : PerformSeekResume(f)
  \/ FollowUp
  \/ \E d \in SyncDelays : duration # 0 /\ now + d <= MaxListenerNow /\ AdvanceTime(d)
  \/ AdvanceToDeadline

ListenerSpec == Init /\ [][ListenerNext]_vars

\* playback that is stopped while seeks are issued and time passes; no
\* manager is registered, so a seek settles with its next continuation
StopNext ==
  \/ \E d \in Durations : duration = 0 /\ Initialize(d)
  \/ duration # 0 /\ Play
  \/ Update
  \/ \E t \in StopTargets : \E beh \in [managers -> {"value"}] :
        duration # 0 /\ seekCalls < MaxStopCalls /\ Seek(t, beh)
  \/ \E beh \in [managers -> {"value"}] :
        duration # 0 /\ seekCalls < MaxStopCalls /\ Stop(beh)
  \/ \E f \in fanouts : PerformSeekResume(f)
  \/ FollowUp
  \/ \E d \in StopDelays : duration # 0 /\ now + d <= MaxStopNow /\ AdvanceTime(d)
  \/ AdvanceToDeadline

StopSpec == Init /\ [][StopNext]_vars

\* reports of the video while coordinated seeks against one manager are in
\* flight
IngestNext ==
  \/ \E m \in OneHandle : m \notin managers /\ duration = 0 /\ RegisterManager(m)
  \/ \E d \in Durations : duration = 0 /\ Initialize(d)
  \/ \E t \in SyncTargets : \E beh \in [managers -> {"promise"}] :
        duration # 0 /\ seekCalls < MaxIngestSeeks /\ Seek(t, beh)
  \/ \E f \in fanouts : \E m \in OneHandle : \E ok \in BOOLEAN : ManagerSettle(f, m, ok)
  \/ \E f \in fanouts : PerformSeekResume(f)
  \/ FollowUp
  \/ \E t \in VideoTimes : \E p \in BOOLEAN :
        duration # 0 /\ UpdateTimeFromVideo(t, p)
  \/ \E d \in Delays : duration # 0 /\ now + d <= MaxIngestNow /\ AdvanceTime(d)
  \/ AdvanceToDeadline

IngestSpec == Init /\ [][IngestNext]_vars

\* commands issued while a coordinated seek waits for its one manager
FlightNext ==
  \/ \E m \in OneHandle : m \notin managers /\ duration = 0 /\ RegisterManager(m)
  \/ \E d \in Durations : duration = 0 /\ Initialize(d)
  \/ duration # 0 /\ Play
  \/ Pause
  \/ Update
  \/ \E r \in ListenerRates : duration # 0 /\ SetPlaybackRate(r)
  \/ \E t \in SyncTargets : \E beh \in [managers -> {"promise"}] :
        duration # 0 /\ seekCalls < MaxFlightSeeks /\ Seek(t, beh)
  \/ \E f \in fanouts : \E m \in OneHandle : ManagerSettle(f, m, TRUE)
  \/ \E f \in fanouts : PerformSeekResume(f)
  \/ FollowUp
  \/ \E d \in FlightDelays : duration # 0 /\ now + d <= MaxFlightNow /\ AdvanceTime(d)
  \/ AdvanceToDeadline

FlightSpec == Init /\ [][FlightNext]_vars

\* playback while the rate is changed
RateNext ==
  \/ \E d \in Durations : duration = 0 /\ Initialize(d)
  \/ duration # 0 /\ Play
  \/ Pause
  \/ Update
  \/ \E t \in RateVideoTimes : \E p \in BOOLEAN :
        duration # 0 /\ UpdateTimeFromVideo(t, p)
  \/ \E r \in Rates : duration # 0 /\ SetPlaybackRate(r)
  \/ \E d \in ClockDelays : duration # 0 /\ now + d <= MaxRateNow /\ AdvanceTime(d)

RateSpec == Init /\ [][RateNext]_vars

\* ------------------------------------------------------------------------
\* The track managers' seek(timeMs): VideoJsManager and SubtitleManager
\* (managers/VideoJsManager.ts), AudioManager (managers/AudioManager.ts) and
\* HtmlManager (managers/HtmlManager.ts).  An item index counts from 0 as in
\* the source; NoItem stands for null and for the index -1.  A field an item
\* does not have is 0.
\* ------------------------------------------------------------------------
\* item.end_ms || (item.start_ms + (item.duration_ms || 0))
EffectiveEnd(item) ==
  IF item.end_ms # 0 THEN item.end_ms ELSE item.start_ms + item.duration_ms

\* the loop of findItemAtTime between the indices left and right
RECURSIVE BinarySearch(_, _, _, _)
BinarySearch(its, clampedTime, left, right) ==
  IF left > right THEN NoItem
  ELSE LET mid     == (left + right) \div 2
           item    == its[mid + 1]
           endTime == EffectiveEnd(item)
       IN IF clampedTime >= item.start_ms /\ clampedTime < endTime THEN mid
          ELSE IF mid = Len(its) - 1 /\ clampedTime = endTime THEN mid
          ELSE IF clampedTime < item.start_ms
               THEN BinarySearch(its, clampedTime, left, mid - 1)
               ELSE BinarySearch(its, clampedTime, mid + 1, right)

\* the search over the lower half of the track only
findItemAtTimeLowerHalf(its, timeMs) ==
  IF Len(its) = 0 THEN NoItem
  ELSE BinarySearch(its, Max(0, timeMs), 0, (Len(its) - 1) \div 2)
\* items.indexOf(findItemAtTime(items, timeMs))
findItemAtTime(its, timeMs) ==
  IF Len(its) = 0 THEN NoItem
  ELSE BinarySearch(its, Max(0, timeMs), 0, Len(its) - 1)

\* the index a manager holds after load(items): VideoJsManager loads the
\* first playlist entry, the others the item found at time 0
InitialIndex(k, its) ==
  IF k = "video"
  THEN IF Len(its) > 0 THEN 0 ELSE mgr[k].currentItemIndex
  ELSE findItemAtTime(its, 0)

\* VideoJsManager and AudioManager skip a seek to the target of their last
\* seek while their time stamp is less than 100 ms old
DedupesSeeks(k) == k \in {"video", "audio"}

IsDuplicateManagerSeek(k, timeMs) ==
  /\ DedupesSeeks(k)
  /\ Abs(timeMs - mgr[k].lastSeekTime) < 1
  /\ DateNow - mgr[k].lastStamp < MANAGER_DEBOUNCE

\* VideoJsManager chains its seeks on seekQueue, the others start at once
QueuesSeeks(k) == k = "video"

\* after the load VideoJsManager and AudioManager wait for the element to be
\* ready and to have sought; SubtitleManager and HtmlManager return
WaitsAfterLoad(k) == k \in {"video", "audio"}

\* the timer that bounds the wait: the one of loadVideoAtIndex, the one
\* around AudioManager.seek, the one around HtmlManager's load;
\* SubtitleManager sets none
WaitTimeout(k) ==
  CASE k = "video" -> VIDEO_LOAD_TIMEOUT
    [] k = "audio" -> AUDIO_SEEK_TIMEOUT
    [] k = "html"  -> HTML_LOAD_TIMEOUT
    [] OTHER       -> NoTimeout

\* the timer of AudioManager covers the whole seek, the others the load
TimeoutCoversSeek(k) == k = "audio"

\* a failed load of the target item: the promise of loadVideoAtIndex is
\* rejected and performSeek throws the error again; the other loaders and
\* wrappers resolve and the seek goes on
AfterLoadError(k) ==
  IF k = "video" THEN "rejected"
  ELSE IF WaitsAfterLoad(k) THEN "finish" ELSE "fulfilled"

AfterLoad(k) == IF WaitsAfterLoad(k) THEN "finish" ELSE "fulfilled"

\* the timer fires: loadVideoAtIndex resolves and performSeek goes on, the
\* wrappers of AudioManager and HtmlManager resolve
AfterTimeout(k) == IF k = "video" THEN "finish" ELSE "fulfilled"

\* whether the source of manager k is active when its seek ends for cause:
\* the media element plays, a subtitle is displayed (the cues of an item are
\* taken to cover it), the HTML panel shows something else than the
\* placeholder; was is the state before
ActiveAfter(k, cause, was) ==
  CASE cause = "sought" ->
         IF k = "video" THEN isPlaying ELSE was \/ isPlaying
    [] cause \in {"loaded", "current"} -> IF k = "html" THEN was \/ cause = "loaded" ELSE TRUE
    [] cause = "loaderror" -> IF k = "subtitle" THEN FALSE
                              ELSE IF k = "html" THEN TRUE ELSE was
    [] cause = "timeout" -> IF k = "html" THEN TRUE ELSE was
    [] OTHER -> was

\* the seek procedure of manager k for timeMs up to its first wait: the
\* manager's fields afterwards, and the state of the procedure
BeginSeek(k, timeMs) ==
  LET cur     == mgr[k]
      idx     == findItemAtTime(cur.items, timeMs)
      stamped == IF DedupesSeeks(k)
                 THEN [cur EXCEPT !.lastSeekTime = timeMs, !.lastStamp = DateNow]
                 ELSE cur
      wait(phase) ==
         [stamped EXCEPT
            !.currentItemIndex = idx,
            !.isSeeking = (k = "video"),
            !.element = @ \/ phase = "load",
            !.run = [target   |-> timeMs,
                     phase    |-> phase,
                     deadline |-> IF WaitTimeout(k) # NoTimeout
                                     /\ (phase = "load" \/ TimeoutCoversSeek(k))
                                  THEN now + WaitTimeout(k)
                                  ELSE NoTimeout]]
  IN IF IsDuplicateManagerSeek(k, timeMs)
     THEN [m |-> cur, st |-> "fulfilled", cause |-> "duplicate"]
     ELSE IF idx = NoItem
     THEN [m |-> [stamped EXCEPT !.currentItemIndex =
                                     IF k = "html" THEN NoItem ELSE @,
                                 !.active = FALSE],
           st |-> "fulfilled", cause |-> "noitem"]
     ELSE IF idx # cur.currentItemIndex
     THEN [m |-> wait("load"), st |-> "running", cause |-> "none"]
     ELSE IF WaitsAfterLoad(k)
     THEN [m |-> wait("finish"), st |-> "running", cause |-> "none"]
     ELSE [m |-> [stamped EXCEPT !.active = ActiveAfter(k, "current", @)],
           st |-> "fulfilled", cause |-> "current"]

Settle(k, st, cause) ==
  lastSettled' = IF st = "running" THEN lastSettled
                 ELSE [kind |-> k, st |-> st, cause |-> cause]

\* the entry of seekQueue whose seek procedure is running
SetRunning(q, st) ==
  [i \in 1..Len(q) |-> IF q[i].st = "running" THEN [q[i] EXCEPT !.st = st] ELSE q[i]]

\* the seek procedure of manager k goes on to phase, or its promise settles
Proceed(k, phase, cause) ==
  IF phase = "finish"
  THEN /\ mgr' = [mgr EXCEPT ![k].run.phase = "finish",
                             ![k].run.deadline =
                                 IF TimeoutCoversSeek(k) THEN @ ELSE NoTimeout]
       /\ UNCHANGED <<seekQueue, lastSettled>>
  ELSE /\ mgr' = [mgr EXCEPT ![k].run = NoSeek, ![k].isSeeking = FALSE,
                             ![k].active = ActiveAfter(k, cause, @)]
       /\ seekQueue' = IF QueuesSeeks(k) THEN SetRunning(seekQueue, phase)
                       ELSE seekQueue
       /\ Settle(k, phase, cause)

\* everything but the managers' own fields
clockSide == <<now, clockVars, seekVars, callVars, loopVars, videoVars,
               managers, timers, emitted, seekEvents, probe, listeners,
               received, alive>>

\* getCurrentItem() of manager k, as an index into its items
getCurrentItem(k) ==
  IF mgr[k].currentItemIndex >= 0 /\ mgr[k].currentItemIndex < Len(mgr[k].items)
  THEN mgr[k].currentItemIndex
  ELSE NoItem

\* VideoJsManager.load asks for the URL of every item before it loads one;
\* the other managers ask for the URL of the item they load, inside try/catch
UrlFailureEscapes(k) == k = "video"

\* the promise of load() is rejected: the URL request of VideoJsManager
\* fails, or the player reports an error and loadVideoAtIndex rejects
LoadRejects(k, its, outcome) ==
  /\ k = "video"
  /\ Len(its) > 0
  /\ outcome \in {"error", "unreadable"}

\* currentItemIndex after load(its) whose item load ends with outcome
IndexAfterLoad(k, its, outcome) ==
  IF UrlFailureEscapes(k) /\ Len(its) > 0 /\ outcome = "unreadable"
  THEN mgr[k].currentItemIndex
  ELSE InitialIndex(k, its)

\* whether the source of manager k is active after load(its): a media
\* element that gets a new source is paused, the video is started again
\* once loaded while the clock plays, the HTML panel shows the item
ActiveAfterLoad(k, its, outcome, was) ==
  CASE k = "video" ->
         IF Len(its) = 0 \/ outcome = "unreadable" THEN was
         ELSE outcome = "loaded" /\ isPlaying
    [] k = "audio" ->
         IF findItemAtTime(its, 0) = NoItem \/ outcome = "unreadable" THEN was
         ELSE FALSE
    [] k = "html" -> findItemAtTime(its, 0) # NoItem
    [] OTHER -> was

\* AudioManager creates its audio element when it loads an item whose URL
\* it could get
ElementAfterLoad(k, its, outcome, had) ==
  IF k = "audio" /\ findItemAtTime(its, 0) # NoItem /\ outcome # "unreadable"
  THEN TRUE ELSE had

\* the item whose file the new audio element gets as src
SrcAfterLoad(k, its, outcome, had) ==
  IF k = "audio" /\ findItemAtTime(its, 0) # NoItem /\ outcome # "unreadable"
  THEN findItemAtTime(its, 0) ELSE had

\* load(items, basePath); outcome is how the load of the item's file ends
Load(k, its, outcome) ==
  /\ mgr' = [mgr EXCEPT ![k].items = its,
                        ![k].currentItemIndex = IndexAfterLoad(k, its, outcome),
                        ![k].active = ActiveAfterLoad(k, its, outcome, @),
                        ![k].element = ElementAfterLoad(k, its, outcome, @)]
  /\ track' = [track EXCEPT ![k].load = IF LoadRejects(k, its, outcome)
                                        THEN "rejected" ELSE "resolved",
                            ![k].loads = @ + 1,
                            ![k].srcItem = SrcAfterLoad(k, its, outcome, @)]
  /\ UNCHANGED <<clockSide, emitted, opCall, seekQueue, mgrCalls, lastSettled>>

\* the tracks of a presentation are loaded, and loaded again
LoadNext ==
  \E k \in Kinds : \E its \in LoadLists : \E outcome \in LoadOutcomes :
     track[k].loads < MaxLoads /\ Load(k, its, outcome)

LoadSpec == Init /\ [][LoadNext]_vars

\* load(items): the items are stored and the first one is loaded
ManagerLoad(k, its) ==
  /\ mgr[k].run.phase = "idle"
  /\ Load(k, its, "loaded")

\* VideoJsManager.seek(timeMs): the seek is chained on seekQueue
VideoSeek(timeMs) ==
  /\ seekQueue' = Append(seekQueue, [target |-> timeMs, st |-> "queued"])
  /\ mgrCalls' = mgrCalls + 1
  /\ UNCHANGED <<now, masterVars, mgr, lastSettled>>

\* an entry that waits has its turn whatever those before it do
HasTurnUnordered(i) == seekQueue[i].st = "queued"

\* the callback chained for entry i runs when the promise of the entry before
\* it has settled
HasTurn(i) ==
  /\ seekQueue[i].st = "queued"
  /\ \A j \in 1..(i - 1) : seekQueue[j].st \in {"fulfilled", "rejected"}

\* the first entry of seekQueue that waits, once those before it have settled
QueueHead == CHOOSE i \in 1..Len(seekQueue) : HasTurn(i)

QueueReady == \E i \in 1..Len(seekQueue) : HasTurn(i)

\* the promise before the entry settled: when it was rejected the callback
\* that calls performSeek is passed over and the catch handler throws the
\* error again, otherwise performSeek starts
QueueAdvance ==
  /\ QueueReady
  /\ LET i == QueueHead
         b == BeginSeek("video", seekQueue[i].target)
     IN IF i > 1 /\ seekQueue[i - 1].st = "rejected"
        THEN /\ seekQueue' = [seekQueue EXCEPT ![i].st = "rejected"]
             /\ Settle("video", "rejected", "queue")
             /\ UNCHANGED mgr
             /\ UNCHANGED track
        ELSE /\ seekQueue' = [seekQueue EXCEPT ![i].st = b.st]
             /\ mgr' = [mgr EXCEPT !["video"] = b.m]
             /\ Settle("video", b.st, b.cause)
             /\ track' = [track EXCEPT !["video"].performed =
                             [target  |-> seekQueue[i].target,
                              at      |-> now,
                              skipped |-> b.cause = "duplicate"]]
  /\ UNCHANGED <<clockSide, emitted, opCall, mgrCalls>>

\* seek(timeMs) of AudioManager, SubtitleManager or HtmlManager
ManagerSeek(k, timeMs) ==
  /\ ~QueuesSeeks(k)
  /\ mgr[k].run.phase = "idle"
  /\ LET b == BeginSeek(k, timeMs) IN
        /\ mgr' = [mgr EXCEPT ![k] = b.m]
        /\ Settle(k, b.st, b.cause)
  /\ mgrCalls' = mgrCalls + 1
  /\ UNCHANGED <<now, masterVars, seekQueue>>

\* the load of the target item ends: loaded, or with an error
LoadSettle(k, ok) ==
  /\ mgr[k].run.phase = "load"
  /\ Proceed(k, IF ok THEN AfterLoad(k) ELSE AfterLoadError(k),
                IF ok THEN "loaded" ELSE "loaderror")
  /\ UNCHANGED <<now, masterVars, mgrCalls>>

\* the timer that bounds the wait fires
WaitTimedOut(k) ==
  /\ mgr[k].run.phase # "idle"
  /\ mgr[k].run.deadline # NoTimeout
  /\ now >= mgr[k].run.deadline
  /\ ~QueueReady
  /\ Proceed(k, AfterTimeout(k), "timeout")
  /\ UNCHANGED <<now, masterVars, mgrCalls>>

\* the waits after the load end: the element is ready and has sought
SeekFinish(k) ==
  /\ mgr[k].run.phase = "finish"
  /\ Proceed(k, "fulfilled", "sought")
  /\ UNCHANGED <<now, masterVars, mgrCalls>>

ManagerDeadlines ==
  {mgr[k].run.deadline : k \in {j \in Kinds : mgr[j].run.deadline # NoTimeout}}

\* nothing happens in the managers until their next timer is due
AdvanceToManagerDeadline ==
  /\ ~QueueReady
  /\ \E t \in ManagerDeadlines :
        /\ t > now
        /\ \A u \in ManagerDeadlines : u > now => t <= u
        /\ now' = t
  /\ UNCHANGED <<masterVars, mgrVars>>

\* the managers of one presentation: each loads its track, then at most
\* MaxManagerCalls seeks are issued while loads end and time passes
ManagerNext ==
  \/ \E k \in Kinds : mgr[k].items = <<>> /\ ManagerLoad(k, TrackItems)
  \/ \E t \in ManagerTargets : mgrCalls < MaxManagerCalls /\ VideoSeek(t)
  \/ QueueAdvance
  \/ \E k \in Kinds : \E t \in ManagerTargets :
        mgrCalls < MaxManagerCalls /\ ManagerSeek(k, t)
  \/ \E k \in Kinds : \E ok \in BOOLEAN : LoadSettle(k, ok)
  \/ \E k \in Kinds : WaitTimedOut(k)
  \/ \E k \in Kinds : SeekFinish(k)
  \/ \E d \in ManagerDelays :
        now + d <= MaxManagerNow /\ ~QueueReady /\ AdvanceTime(d)
  \/ AdvanceToManagerDeadline

ManagerSpec == Init /\ [][ManagerNext]_vars

\* ------------------------------------------------------------------------
\* utils/timeUtils.ts called on its own.  calculateItemRelativeTime returns
\* seconds; they are kept in thousandths, so that relativeMs / 1000 is exact.
\* ------------------------------------------------------------------------
\* calculateItemRelativeTime(item, masterTimeMs), in thousandths of a second
calculateItemRelativeTime(item, masterTimeMs) ==
  LET relativeMs == masterTimeMs - item.start_ms IN
  IF relativeMs < 0 THEN 0
  ELSE IF item.duration_ms # 0
       THEN Min(relativeMs, item.duration_ms)
       ELSE relativeMs

\* findItemAtTime(items, t), and calculateItemRelativeTime(items[0], t)
Probe(its, t) ==
  /\ probe' = [items |-> its,
               t     |-> t,
               found |-> findItemAtTime(its, t),
               rel   |-> IF Len(its) > 0
                         THEN calculateItemRelativeTime(its[1], t)
                         ELSE 0]
  /\ UNCHANGED <<now, clockVars, seekVars, callVars, loopVars, videoVars,
                 managers, timers, emitted, seekEvents, opCall, listeners,
                 received, alive, track, mgr, seekQueue, mgrCalls, lastSettled>>

\* the items a track may hold
ItemSet ==
  [start_ms : ItemStarts, end_ms : ItemEnds, duration_ms : ItemDurations]

\* the tracks: the items in ascending order of start_ms
SortedByStart(its) ==
  \A i \in 1..(Len(its) - 1) : its[i].start_ms <= its[i + 1].start_ms

ItemLists ==
  {its \in UNION {[1..n -> ItemSet] : n \in 0..MaxItems} : SortedByStart(its)}

\* one call on a track and a time
UtilNext ==
  /\ probe = NoProbe
  /\ \E its \in ItemLists : \E t \in ProbeTimes : Probe(its, t)

UtilSpec == Init /\ [][UtilNext]_vars

\* ------------------------------------------------------------------------
\* sync(masterTime, playbackRate) of the track managers.  The native
\* position the source reports, the duration the media element reports
\* (0 while it is unknown) and the state of the audio element are inputs;
\* positions within an item are in milliseconds.
\* ------------------------------------------------------------------------
RECURSIVE SumOf(_)
SumOf(h) ==
  IF h = <<>> THEN 0
  ELSE IF Len(h) = 1 THEN h[1]
  ELSE LET half == Len(h) \div 2
       IN SumOf(SubSeq(h, 1, half)) + SumOf(SubSeq(h, half + 1, Len(h)))

\* the history is never shortened
updateSyncMetricsUncapped(t, drift) ==
  LET h == Append(t.driftHistory, drift)
  IN [t EXCEPT !.drift = drift,
               !.driftHistory = h,
               !.averageDrift = SumOf(h) \div Len(h),
               !.maxDrift = Max(@, drift),
               !.samples = Append(@, drift)]

\* updateSyncMetrics(drift); averageDrift is kept as a whole number
updateSyncMetrics(t, drift) ==
  LET pushed == Append(t.driftHistory, drift)
      h      == IF Len(pushed) > MAX_DRIFT_HISTORY THEN Tail(pushed) ELSE pushed
  IN [t EXCEPT !.drift = drift,
               !.driftHistory = h,
               !.averageDrift = SumOf(h) \div Len(h),
               !.maxDrift = Max(@, drift),
               !.samples = Append(@, drift)]

\* item.duration_ms ? item.duration_ms / 1000 : element.duration
SourceDuration(item, mediaDuration) ==
  IF item.duration_ms # 0 THEN item.duration_ms ELSE mediaDuration

\* Math.max(0, Math.min(time, duration || time))
ClampToSource(time, sourceDuration) ==
  Max(0, Min(time, IF sourceDuration # 0 THEN sourceDuration ELSE time))

\* the source is set to the expected position at every sync
CorrectsAlways(k, m, drift, native, target) == TRUE
\* the test of syncCurrentVideo and of syncCurrentAudio for setting the
\* native position of the source
Corrects(k, m, drift, native, target) ==
  IF k = "video"
  THEN /\ drift > VIDEO_SYNC_TOLERANCE
       /\ ~m.isSeeking
       /\ DateNow - m.lastStamp > VIDEO_CORRECTION_THROTTLE
       /\ Abs(native - target) > VIDEO_CORRECTION_MIN
  ELSE /\ drift > AUDIO_SYNC_TOLERANCE
       /\ drift > AUDIO_CORRECTION_MIN
       /\ DateNow - m.lastStamp > AUDIO_CORRECTION_GUARD

\* syncCurrentVideo(masterTime, playbackRate, item)
syncCurrentVideo(m, t, masterTime, e) ==
  LET item      == m.items[m.currentItemIndex + 1]
      videoTime == calculateItemRelativeTime(item, masterTime)
      dur       == SourceDuration(item, e.mediaDuration)
      drift     == Abs(e.native - videoTime)
      target    == ClampToSource(videoTime, dur)
      fix       == Corrects("video", m, drift, e.native, target)
      measured  == updateSyncMetrics(t, drift)
  IN IF m.isSeeking THEN [m |-> m, t |-> t]
     ELSE IF dur # 0 /\ videoTime > dur + VIDEO_END_SLACK THEN [m |-> m, t |-> t]
     ELSE [m |-> [m EXCEPT !.isSeeking = fix,
                           !.lastStamp = IF fix THEN DateNow ELSE @,
                           !.active = @ \/ dur = 0 \/ videoTime < dur],
           t |-> [measured EXCEPT
                    !.position = IF fix THEN target ELSE e.native,
                    !.sets = IF fix THEN @ + 1 ELSE @,
                    !.corrections = IF fix THEN @ + 1 ELSE @,
                    !.settleAt = IF fix THEN now + CORRECTION_SETTLE ELSE @]]

\* VideoJsManager.sync: nothing while an item is loading; with no item the
\* player is paused past the end of the last item only; another item is
\* loaded and positioned by the clock's time; else syncCurrentVideo
syncVideo(m, t, masterTime, e) ==
  LET idx == findItemAtTime(m.items, masterTime) IN
  IF m.run.phase = "load" THEN [m |-> m, t |-> t]
  ELSE IF idx = NoItem
  THEN IF /\ masterTime > 0
          /\ Len(m.items) > 0
          /\ masterTime > EffectiveEnd(m.items[Len(m.items)])
       THEN [m |-> [m EXCEPT !.active = FALSE], t |-> t]
       ELSE [m |-> m, t |-> t]
  ELSE IF idx # m.currentItemIndex
  THEN LET item      == m.items[idx + 1]
           videoTime == calculateItemRelativeTime(item, currentTime)
       IN [m |-> [m EXCEPT !.currentItemIndex = idx,
                           !.active = (@ /\ m.currentItemIndex >= 0) \/ isPlaying],
           t |-> [t EXCEPT !.position = ClampToSource(videoTime, e.mediaDuration),
                           !.sets = @ + 1]]
  ELSE syncCurrentVideo(m, t, masterTime, e)

\* syncCurrentAudio(masterTime, playbackRate, item)
syncCurrentAudio(m, t, masterTime, e) ==
  LET item      == m.items[m.currentItemIndex + 1]
      audioTime == calculateItemRelativeTime(item, masterTime)
      dur       == SourceDuration(item, e.mediaDuration)
      drift     == Abs(e.native - audioTime)
      target    == ClampToSource(audioTime, dur)
      fix       == Corrects("audio", m, drift, e.native, target)
      measured  == updateSyncMetrics(t, drift)
  IN IF DateNow - m.lastStamp < AUDIO_SEEK_GUARD THEN [m |-> m, t |-> t]
     ELSE IF dur # 0 /\ audioTime > dur + AUDIO_END_SLACK
     THEN [m |-> [m EXCEPT !.active = FALSE], t |-> t]
     ELSE [m |-> [m EXCEPT !.active = @ \/ (e.ready /\ (dur = 0 \/ audioTime < dur))],
           t |-> [measured EXCEPT
                    !.position = IF fix THEN target ELSE e.native,
                    !.sets = IF fix THEN @ + 1 ELSE @,
                    !.corrections = IF fix THEN @ + 1 ELSE @]]

\* AudioManager.sync: nothing without an element or while it buffers; with
\* no item the element is paused; another item is loaded into a new element
\* and then synced; else syncCurrentAudio
syncAudio(m, t, masterTime, e) ==
  LET idx == findItemAtTime(m.items, masterTime) IN
  IF ~m.element \/ e.buffering THEN [m |-> m, t |-> t]
  ELSE IF idx = NoItem THEN [m |-> [m EXCEPT !.active = FALSE], t |-> t]
  ELSE IF idx # m.currentItemIndex
  THEN syncCurrentAudio([m EXCEPT !.currentItemIndex = idx, !.active = FALSE],
                        t, masterTime, [e EXCEPT !.native = 0])
  ELSE syncCurrentAudio(m, t, masterTime, e)

\* SubtitleManager.sync: the display is hidden with no item, else the cue
\* of the item is displayed, after its file was loaded when it is another
syncSubtitle(m, t, masterTime, e) ==
  LET idx == findItemAtTime(m.items, masterTime) IN
  IF idx = NoItem THEN [m |-> [m EXCEPT !.active = FALSE], t |-> t]
  ELSE [m |-> [m EXCEPT !.currentItemIndex = idx, !.active = TRUE], t |-> t]

\* HtmlManager.sync: the placeholder is shown with no item when there was a
\* current item; another item is loaded at once when there is no current
\* item or the time is outside the current one, else after 200 ms
syncHtml(m, t, masterTime, e) ==
  LET idx == findItemAtTime(m.items, masterTime)
      cur == IF m.currentItemIndex = NoItem THEN NoItem
             ELSE m.items[m.currentItemIndex + 1]
      isLargeTimeJump ==
        /\ m.currentItemIndex # NoItem
        /\ \/ masterTime < cur.start_ms
           \/ masterTime >= EffectiveEnd(cur)
  IN IF idx = NoItem
     THEN IF m.currentItemIndex # NoItem
          THEN [m |-> [m EXCEPT !.currentItemIndex = NoItem, !.active = FALSE],
                t |-> t]
          ELSE [m |-> m, t |-> t]
     ELSE IF idx # m.currentItemIndex
             /\ (m.currentItemIndex = NoItem \/ isLargeTimeJump)
     THEN [m |-> [m EXCEPT !.currentItemIndex = idx, !.active = TRUE], t |-> t]
     ELSE [m |-> m, t |-> t]

syncOf(k, m, t, masterTime, e) ==
  CASE k = "video"    -> syncVideo(m, t, masterTime, e)
    [] k = "audio"    -> syncAudio(m, t, masterTime, e)
    [] k = "subtitle" -> syncSubtitle(m, t, masterTime, e)
    [] OTHER          -> syncHtml(m, t, masterTime, e)

\* sync(masterTime, playbackRate) of manager k in the environment e
Sync(k, masterTime, e) ==
  LET r == syncOf(k, mgr[k], track[k], masterTime, e) IN
  /\ mgr' = [mgr EXCEPT ![k] = r.m]
  /\ track' = [track EXCEPT ![k] = [r.t EXCEPT !.syncs = @ + 1,
                                               !.syncedAt = masterTime]]
  /\ UNCHANGED <<clockSide, emitted, opCall, seekQueue, mgrCalls, lastSettled>>

\* the timer of a correction of VideoJsManager clears isSeeking
CorrectionSettled ==
  /\ track["video"].settleAt # NoTimeout
  /\ now >= track["video"].settleAt
  /\ mgr' = [mgr EXCEPT !["video"].isSeeking = FALSE]
  /\ track' = [track EXCEPT !["video"].settleAt = NoTimeout]
  /\ UNCHANGED <<clockSide, emitted, opCall, seekQueue, mgrCalls, lastSettled>>

\* play() of VideoJsManager and AudioManager: the source plays
ManagerPlay(k) ==
  /\ k \in {"video", "audio"}
  /\ k = "audio" => mgr[k].element
  /\ ~mgr[k].active
  /\ mgr' = [mgr EXCEPT ![k].active = TRUE]
  /\ UNCHANGED <<clockSide, emitted, opCall, track, seekQueue, mgrCalls, lastSettled>>

\* the manager has its source: the player is created with the manager,
\* the audio element with the first load
HasSource(k) == k = "video" \/ mgr[k].element

\* play() returns without calling the native play()
PlaySkipped(k) == ~HasSource(k) \/ ~track[k].paused

\* play() of VideoJsManager and AudioManager with the native play promise:
\* the native play() clears the paused flag at once and returns a promise
\* that settles later
PlayCall(k) ==
  /\ k \in {"video", "audio"}
  /\ track' = [track EXCEPT
       ![k] = IF PlaySkipped(k)
              THEN [@ EXCEPT !.commands = @ + 1, !.lastCommand = "play"]
              ELSE [@ EXCEPT !.commands = @ + 1, !.lastCommand = "play",
                             !.paused = FALSE,
                             !.plays = @ + 1,
                             !.playPromise = track[k].plays + 1,
                             !.pending = @ \cup {[id |-> track[k].plays + 1,
                                                  pauses |-> 0]}]]
  /\ UNCHANGED <<clockSide, emitted, opCall, mgr, seekQueue, mgrCalls, lastSettled>>

\* pause() returns without doing anything
PauseSkipped(k) == ~HasSource(k) \/ (k = "audio" /\ track[k].paused)

\* pause(): the native pause() at once, or chained to the play promise held
PauseCall(k) ==
  /\ k \in {"video", "audio"}
  /\ track' = [track EXCEPT
       ![k] = IF PauseSkipped(k)
              THEN [@ EXCEPT !.commands = @ + 1, !.lastCommand = "pause"]
              ELSE IF track[k].playPromise # NULL
              THEN [@ EXCEPT !.commands = @ + 1, !.lastCommand = "pause",
                             !.pending =
                                {IF p.id = track[k].playPromise
                                 THEN [p EXCEPT !.pauses = @ + 1] ELSE p : p \in @}]
              ELSE [@ EXCEPT !.commands = @ + 1, !.lastCommand = "pause",
                             !.paused = TRUE]]
  /\ UNCHANGED <<clockSide, emitted, opCall, mgr, seekQueue, mgrCalls, lastSettled>>

\* a native play promise settles: the callbacks of play() clear playPromise,
\* then every chained pause callback pauses the source
PlayPromiseSettles(k, p) ==
  /\ k \in {"video", "audio"}
  /\ p \in track[k].pending
  /\ track' = [track EXCEPT ![k].pending = @ \ {p},
                            ![k].playPromise = NULL,
                            ![k].paused = IF p.pauses > 0 THEN TRUE ELSE @]
  /\ UNCHANGED <<clockSide, emitted, opCall, mgr, seekQueue, mgrCalls, lastSettled>>

\* one manager at a time is loaded, then play() and pause() are called while
\* the native play promises settle
PlaybackNext ==
  \/ \E k \in {"video", "audio"} :
        /\ \A j \in Kinds : track[j].loads = 0 /\ track[j].commands = 0
        /\ Load(k, TrackItems, "loaded")
  \/ \E k \in {"video", "audio"} :
        /\ \A j \in Kinds \ {k} : track[j].commands = 0 /\ track[j].loads = 0
        /\ track[k].commands < MaxMediaCalls
        /\ \/ PlayCall(k)
           \/ PauseCall(k)
  \/ \E k \in {"video", "audio"} : \E p \in track[k].pending : PlayPromiseSettles(k, p)
  \/ \E d \in Delays : now + d <= MaxMediaNow /\ AdvanceTime(d)

PlaybackSpec == Init /\ [][PlaybackNext]_vars

\* loadAudioAtIndex(index) is called and waits for the first file URL
LoadAudioStart(index) ==
  /\ index >= 0
  /\ index < Len(mgr["audio"].items)
  /\ track' = [track EXCEPT
        !["audio"].itemLoads = @ + 1,
        !["audio"].lookups = @ \cup {[id    |-> track["audio"].itemLoads + 1,
                                       index |-> index,
                                       phase |-> "check"]}]
  /\ UNCHANGED <<clockSide, emitted, opCall, mgr, seekQueue, mgrCalls, lastSettled>>

\* a file URL arrives (ok) or the request fails.  After the first request
\* the index is stored, and when the URL came a new element without src is
\* created and the URL is asked for again; after the second request the
\* element that exists by then gets the URL as its src
LoadAudioLookup(c, ok) ==
  /\ c \in track["audio"].lookups
  /\ IF c.phase = "check"
     THEN /\ mgr' = [mgr EXCEPT !["audio"].currentItemIndex = c.index,
                                !["audio"].element = @ \/ ok,
                                !["audio"].active = IF ok THEN FALSE ELSE @]
          /\ track' = [track EXCEPT
                !["audio"].srcItem = IF ok THEN NoItem ELSE @,
                !["audio"].lookups =
                    (@ \ {c}) \cup (IF ok THEN {[c EXCEPT !.phase = "url"]} ELSE {})]
     ELSE /\ track' = [track EXCEPT
                !["audio"].srcItem = IF ok THEN c.index ELSE @,
                !["audio"].lookups = @ \ {c}]
          /\ UNCHANGED mgr
  /\ UNCHANGED <<clockSide, emitted, opCall, seekQueue, mgrCalls, lastSettled>>

\* sync(masterTime) reaches loadAudioAtIndex
SyncLoadsItem(masterTime) ==
  /\ mgr["audio"].element
  /\ findItemAtTime(mgr["audio"].items, masterTime) # NoItem
  /\ findItemAtTime(mgr["audio"].items, masterTime) # mgr["audio"].currentItemIndex

\* seek(timeMs) reaches loadAudioAtIndex
SeekLoadsItem(timeMs) ==
  /\ ~IsDuplicateManagerSeek("audio", timeMs)
  /\ findItemAtTime(mgr["audio"].items, timeMs) # NoItem
  /\ findItemAtTime(mgr["audio"].items, timeMs) # mgr["audio"].currentItemIndex

\* the audio track is loaded; sync and seek switch items while the file URLs
\* arrive in any order
AudioNext ==
  \/ track["audio"].loads = 0 /\ Load("audio", TrackItems, "loaded")
  \/ \E t \in AudioTimes :
        /\ track["audio"].itemLoads < MaxItemLoads
        /\ SyncLoadsItem(t)
        /\ LoadAudioStart(findItemAtTime(mgr["audio"].items, t))
  \/ \E t \in AudioTimes :
        /\ track["audio"].itemLoads < MaxItemLoads
        /\ SeekLoadsItem(t)
        /\ LoadAudioStart(findItemAtTime(mgr["audio"].items, t))
  \/ \E c \in track["audio"].lookups : LoadAudioLookup(c, TRUE)
  \/ \E d \in Delays : now + d <= MaxAudioNow /\ AdvanceTime(d)

AudioSpec == Init /\ [][AudioNext]_vars

SyncEnvs ==
  [native : NativePositions, mediaDuration : MediaDurations,
   buffering : BOOLEAN, ready : BOOLEAN]

\* one manager at a time: a track with a gap is loaded, played and synced
\* while time passes
TrackNext ==
  \/ \E k \in Kinds : \E its \in SyncLists :
        /\ track[k].loads < MaxTrackLoads
        /\ \A j \in Kinds \ {k} : track[j].load = "none"
        /\ Load(k, its, "loaded")
  \/ \E k \in Kinds : ManagerPlay(k)
  \/ \E k \in Kinds : \E t \in SyncTimes : \E e \in SyncEnvs :
        /\ track[k].load # "none"
        /\ track[k].syncs < MaxSyncCalls
        /\ Sync(k, t, e)
  \/ CorrectionSettled
  \/ \E d \in TrackDelays : now + d <= MaxTrackNow /\ AdvanceTime(d)

TrackSpec == Init /\ [][TrackNext]_vars

\* the environment of a sync pass that measures a small drift
MetricEnvs ==
  [native : MetricPositions, mediaDuration : {1000}, buffering : {FALSE},
   ready : {TRUE}]

\* one manager is loaded and synced again and again at one master time; the
\* larger of the two drifts is measured at the passes in LargeDriftAt only
MetricsNext ==
  \/ \E k \in {"video", "audio"} :
        /\ \A j \in Kinds : track[j].loads = 0
        /\ Load(k, TrackItems, "loaded")
  \/ \E k \in {"video", "audio"} : \E e \in MetricEnvs :
        /\ track[k].load # "none"
        /\ track[k].syncs < MaxMetricSyncs
        /\ e.native = 300 => track[k].syncs \in LargeDriftAt
        /\ Sync(k, 400, e)

MetricsSpec == Init /\ [][MetricsNext]_vars

\* the environment of a sync pass of the video: the player is at the
\* position of the clock, or far from it
DedupeEnvs ==
  [native : {100, 900}, mediaDuration : {1000}, buffering : {FALSE},
   ready : {TRUE}]

\* the video manager seeks while sync passes correct its drift
DedupeNext ==
  \/ mgr["video"].items = <<>> /\ ManagerLoad("video", TrackItems)
  \/ \E t \in DedupeTargets : mgrCalls < MaxDedupeSeeks /\ VideoSeek(t)
  \/ QueueAdvance
  \/ SeekFinish("video")
  \/ \E e \in DedupeEnvs :
        /\ track["video"].load # "none"
        /\ track["video"].syncs < MaxDedupeSyncs
        /\ Sync("video", 100, e)
  \/ CorrectionSettled
  \/ \E d \in DedupeDelays :
        now + d <= MaxDedupeNow /\ ~QueueReady /\ AdvanceTime(d)

DedupeSpec == Init /\ [][DedupeNext]_vars

\* ------------------------------------------------------------------------
\* ContentLoader.loadManifest of main/contentLoader.ts.  The parsed JSON is
\* the input: a string field is Undefined when the key is absent, a number
\* field is a record that tells whether the key is present, and tracks and
\* items tell whether they are absent, an object that is no array, or an
\* array.
\* ------------------------------------------------------------------------
Undefined == "undefined"

NoNumber == [def |-> FALSE, n |-> 0]

Number(n) == [def |-> TRUE, n |-> n]

\* !s of a string field
FalsyString(s) == s \in {Undefined, ""}

\* !x of a number field
FalsyNumber(x) == ~x.def \/ x.n = 0

\* the test of one item that accepts no start_ms of 0
InvalidItemFalsyStart(item) ==
  FalsyString(item.id) \/ FalsyString(item.file) \/ FalsyNumber(item.start_ms)

\* !item.id || !item.file || item.start_ms === undefined
InvalidItem(item) ==
  FalsyString(item.id) \/ FalsyString(item.file) \/ ~item.start_ms.def

\* the error of the loop body for one track; iterating over items that are
\* no array throws a TypeError
TrackError(t) ==
  IF FalsyString(t.id) \/ FalsyString(t.type) \/ t.items.kind = "undefined"
  THEN "Invalid track structure"
  ELSE IF t.items.kind # "array" THEN "TypeError"
  ELSE IF \E i \in 1..Len(t.items.list) : InvalidItem(t.items.list[i])
       THEN "Invalid item in track"
       ELSE "none"

\* validateManifest(manifest): the error it throws, or "none"
validateManifest(m) ==
  IF FalsyString(m.version) THEN "Manifest missing version"
  ELSE IF FalsyNumber(m.duration_ms) \/ m.duration_ms.n <= 0
       THEN "Invalid duration_ms in manifest"
  ELSE IF m.tracks.kind # "array" THEN "Manifest missing tracks array"
  ELSE LET bad == {i \in 1..Len(m.tracks.list) :
                     TrackError(m.tracks.list[i]) # "none"}
       IN IF bad = {} THEN "none"
          ELSE TrackError(m.tracks.list[CHOOSE i \in bad :
                                           \A j \in bad : i <= j])

\* path.resolve(basePath, file) unless the file is absolute
ResolvedFile(file) == IF file = "a.mp4" THEN "/base/a.mp4" ELSE file

\* updateManifestPaths(manifest, basePath)
updateManifestPaths(m) ==
  [m EXCEPT !.tracks.list =
     [i \in 1..Len(@) |->
        [@[i] EXCEPT !.items.list =
           [j \in 1..Len(@) |-> [@[j] EXCEPT !.file = ResolvedFile(@)]]]]]

NoManifest ==
  [version |-> Undefined, duration_ms |-> NoNumber,
   tracks |-> [kind |-> "undefined", list |-> <<>>]]

\* loadManifest(manifestPath) on the parsed content m: manifest.tracks.length
\* is read for the log before the validation
loadManifest(m) ==
  LET error == IF m.tracks.kind = "undefined" THEN "TypeError"
               ELSE validateManifest(m)
  IN /\ probe' = [manifest |-> m,
                  error    |-> error,
                  returned |-> IF error = "none" THEN updateManifestPaths(m)
                               ELSE NoManifest]
     /\ UNCHANGED <<now, clockVars, seekVars, callVars, loopVars, videoVars,
                    managers, timers, emitted, seekEvents, opCall, listeners,
                    received, alive, track, mgr, seekQueue, mgrCalls,
                    lastSettled>>

\* the manifests a file may hold
ManifestItems ==
  [id : {Undefined, "i1"}, file : {Undefined, "a.mp4"},
   start_ms : {NoNumber, Number(0)}]

ManifestItemLists ==
  {[kind |-> "undefined", list |-> <<>>], [kind |-> "object", list |-> <<>>]}
  \cup {[kind |-> "array", list |-> l] :
           l \in UNION {[1..n -> ManifestItems] : n \in 0..MaxManifestItems}}

ManifestTracks ==
  [id : {Undefined, "t1"}, type : {Undefined, "video"},
   items : ManifestItemLists]

ManifestTrackLists ==
  {[kind |-> "undefined", list |-> <<>>], [kind |-> "object", list |-> <<>>]}
  \cup {[kind |-> "array", list |-> l] :
           l \in UNION {[1..n -> ManifestTracks] : n \in 0..MaxManifestTracks}}

Manifests ==
  [version : {Undefined, "", "1.0"},
   duration_ms : {NoNumber, Number(0 - 1), Number(0), Number(1000)},
   tracks : ManifestTrackLists]

\* one manifest is loaded
ManifestNext ==
  /\ probe = NoProbe
  /\ \E m \in Manifests : loadManifest(m)

ManifestSpec == Init /\ [][ManifestNext]_vars

\* ------------------------------------------------------------------------
\* Properties of the coordinated seek
\* ------------------------------------------------------------------------
SeekEventAt(t) == ClockEvent("seek", t, playbackRate, isPlaying)

\* C1: a coordinated seek with a manager whose seek() promise is still
\* pending always completes, whatever that manager does: the Seek event is
\* emitted, the promise of seek() resolves and isSeeking is cleared
StuckSeekCompletes ==
  (\E f \in fanouts : ~AllSettled(f))
    ~> (/\ fanouts = {}
        /\ ~isSeeking
        /\ lastDone.result = "resolved"
        /\ emitted = <<SeekEventAt(lastDone.target)>>)

\* a seek has just completed because the 3000 ms timeout of a manager fired
StuckSeekTimedOut ==
  /\ "timeout" \in lastDone.outcomes
  /\ lastDone.result = "resolved"
  /\ ~isSeeking
  /\ emitted = <<SeekEventAt(lastDone.target)>>
  /\ now >= SEEK_TIMEOUT

\* C2: at most one fan-out is in flight at any time, it is the one the clock
\* holds as seekPromise, and the clock is seeking exactly while it is in flight
OneSeekInFlight ==
  /\ Cardinality(fanouts) <= 1
  /\ \A f \in fanouts : seekPromise = f.id /\ isSeeking
  /\ fanouts = {} => (seekPromise = NULL /\ ~isSeeking)

\* a seek() to another target was called while a fan-out was in flight
SeekCalledInFlight ==
  /\ lastCall.inflight
  /\ ~lastCall.started
  /\ \E f \in fanouts : f.target # lastCall.target

StartedCount(p) == (IF p[1] THEN 1 ELSE 0) + (IF p[2] THEN 1 ELSE 0)

\* C3 as stated: two successive seek() calls with the same clamped target,
\* the second less than 200 ms after the first, perform exactly one fan-out
SeekDedupExactlyOne == dupPair # <<>> => StartedCount(dupPair) = 1

\* C3 amended: two such calls perform at most one fan-out, and every fan-out
\* emits one Seek event, when it returns: so at most one Seek event
SeekDedupAtMostOne ==
  /\ dupPair # <<>> => StartedCount(dupPair) <= 1
  /\ seekEvents + Cardinality(fanouts) = fanoutsStarted

\* the second of two equal seeks was dropped by the debounce after the first
\* had completed with its Seek event
SecondSeekDebounced ==
  /\ dupPair = <<TRUE, FALSE>>
  /\ ~lastCall.inflight
  /\ fanoutsStarted = 1
  /\ seekEvents = 1

Returned(f) == \A g \in fanouts' : g.id # f.id

HasFailure(f) == \E m \in DOMAIN f.wrappers : f.wrappers[m] \in {"failed", "rejected"}

\* C4: when a manager's seek() rejected or threw, every registered manager
\* was invoked all the same, and when the fan-out returns the Seek event is
\* emitted once and the promise of seek() resolves
PartialFailureTolerated ==
  [][\A f \in fanouts :
        /\ DOMAIN f.wrappers = managers
        /\ (Returned(f) /\ HasFailure(f)) =>
              /\ lastDone'.result = "resolved"
              /\ seekEvents' = seekEvents + 1
              /\ emitted' = <<SeekEventAt(f.target)>>
              /\ ~isSeeking']_vars

\* a fan-out to two managers returned: one threw or rejected, one resolved
OneManagerFailed ==
  /\ Cardinality(managers) = 2
  /\ lastDone.result = "resolved"
  /\ lastDone.outcomes \in {{"rejected", "resolved"}, {"failed", "resolved"}}
  /\ emitted = <<SeekEventAt(lastDone.target)>>

\* C5 as stated: while a manager's seek is pending the position still has
\* the value it had before the seek
PositionHeldDuringSeek ==
  \A f \in fanouts : ~AllSettled(f) => currentTime = f.before

\* C6 as stated: once the seeks have settled the position is the target of
\* the last seek() call, also when that call arrived while another seek was
\* in flight
NewerSeekWins ==
  (fanouts = {} /\ seekCalls > 0 /\ lastCall.inflight) => currentTime = lastCall.target

TimerFired == Len(timers') < Len(timers)

TimeUpdateEvent == ClockEvent("timeupdate", currentTime, playbackRate, isPlaying)

\* C7 as stated: the follow-up timer of every completed seek emits a
\* TimeUpdate carrying the position
FollowUpAlwaysEmits ==
  [][TimerFired => emitted' = <<TimeUpdateEvent>>]_vars

\* C7 amended: every seek that emits its Seek event sets a 100 ms timer; when
\* it fires a TimeUpdate carrying the position is emitted unless a seek is in
\* flight at that moment, and then nothing is emitted
FollowUpUnlessSeeking ==
  [][/\ seekEvents' = seekEvents + 1 => timers' = Append(timers, now + FOLLOWUP_DELAY)
     /\ TimerFired => emitted' = IF isSeeking THEN <<>> ELSE <<TimeUpdateEvent>>]_vars

\* the follow-up of a completed seek has just emitted its TimeUpdate
FollowUpEmitted ==
  /\ seekEvents >= 1
  /\ emitted = <<TimeUpdateEvent>>
  /\ now >= FOLLOWUP_DELAY

\* C8 as stated: for every manager kind the promise seek(timeMs) returned is
\* never rejected, whatever became of the load of the target item.
ManagerSeekNeverRejects == lastSettled.st # "rejected"

\* ------------------------------------------------------------------------
\* Properties of the playback rate
\* ------------------------------------------------------------------------
\* the position the clock holds was computed or adopted at this instant
PositionFresh == ~isPlaying \/ lastUpdateTime = now \/ lastVideoUpdateTime = now

RateCallAccepted == opCall'.op = "setPlaybackRate" /\ ValidRate(opCall'.arg)

RateCallRejected == opCall'.op = "setPlaybackRate" /\ ~ValidRate(opCall'.arg)

\* C11 as stated: an accepted setPlaybackRate(r), called when the position
\* is fresh, moves the position by less than one tick interval (the 100 ms
\* between two TimeUpdate events, the longest of the clock's ticks).
RateKeepsPosition ==
  [][(RateCallAccepted /\ PositionFresh)
        => Abs(currentTime' - currentTime) < UI_UPDATE_INTERVAL]_vars

\* C12: the rate is always in (0, 4]; a setPlaybackRate(r) with r <= 0 or
\* r > 4 changes nothing of the clock and emits nothing, an accepted one sets
\* the rate to r and emits one RateChange event that carries r.
RateInRange ==
  /\ [](playbackRate > 0 /\ playbackRate <= MAX_RATE)
  /\ [][/\ RateCallRejected => (UNCHANGED clockVars /\ emitted' = <<>>)
        /\ RateCallAccepted =>
              /\ playbackRate' = opCall'.arg
              /\ emitted' = <<ClockEvent("ratechange", currentTime',
                                         opCall'.arg, isPlaying')>>]_vars

\* a rate was accepted while playing and a later call with a rate out of
\* range has just been turned down
RateRejectedAfterAccepted ==
  /\ opCall.op = "setPlaybackRate"
  /\ ~ValidRate(opCall.arg)
  /\ opCall.arg > MAX_RATE
  /\ playbackRate = 200
  /\ isPlaying

\* ------------------------------------------------------------------------
\* Properties of the source-driven updates
\* ------------------------------------------------------------------------
VideoReport == opCall'.op = "updateTimeFromVideo"

\* a report the claims call anomalous
Anomalous(timeMs) ==
  \/ timeMs < 0
  \/ timeMs > duration + 1000
  \/ (timeMs = 0 /\ currentTime > 1000)

\* C13: a report below 0, above duration + 1000 ms, or of exactly 0 while
\* the position is above 1000 ms changes neither the position, the playing
\* state nor the time of the last jump and emits nothing; the report that
\* follows a rejected 0, 500 ms ahead of the position, is adopted.
AnomalousReportRejected ==
  [][/\ (VideoReport /\ Anomalous(opCall'.arg)) =>
           /\ UNCHANGED <<currentTime, isPlaying, lastJumpTime>>
           /\ emitted' = <<>>
     /\ (/\ opCall.op = "updateTimeFromVideo" /\ opCall.arg = 0
         /\ currentTime > RESET_GUARD
         /\ VideoReport /\ opCall'.arg = currentTime + 500) =>
           currentTime' = opCall'.arg]_vars

\* a report of 0 has just been turned down at a position past 1000 ms
ResetReportRejected ==
  /\ opCall.op = "updateTimeFromVideo"
  /\ opCall.arg = 0
  /\ currentTime > 1000
  /\ emitted = <<>>

\* C14 as stated: a suspect jump on the timeline, outside a seek, is ignored
\* when a suspect jump was adopted less than 1000 ms before and is adopted
\* otherwise, also when none was ever adopted.
SuspectJumpRateLimited ==
  [][(/\ VideoReport /\ SuspectJump(opCall'.arg)
      /\ ~Anomalous(opCall'.arg) /\ ~isSeeking) =>
        IF lastJumpTime # 0 /\ now - lastJumpTime < JUMP_WINDOW
        THEN UNCHANGED <<currentTime, lastJumpTime>>
        ELSE currentTime' = opCall'.arg /\ lastJumpTime' = now]_vars

\* ------------------------------------------------------------------------
\* Properties of the sync interval
\* ------------------------------------------------------------------------
\* C15: a Sync event is emitted only while the clock is playing and no
\* coordinated seek is in flight, and it carries isPlaying = true.
SyncOnlyWhilePlaying ==
  \A i \in 1..Len(emitted) :
     emitted[i].type = "sync" =>
        /\ emitted[i].isPlaying
        /\ isPlaying
        /\ ~isSeeking
        /\ fanouts = {}

\* the interval ticked while the clock was playing and a coordinated seek
\* was in flight, and emitted nothing
SyncSkippedInSeek ==
  /\ opCall.op = "syncTick"
  /\ isPlaying /\ isSeeking /\ fanouts # {}
  /\ emitted = <<>>

\* ------------------------------------------------------------------------
\* Properties of utils/timeUtils.ts
\* ------------------------------------------------------------------------
Probed == probe # NoProbe

\* the item gives its end or its duration
HasEnd(item) == item.end_ms # 0 \/ item.duration_ms # 0

\* every item has an interval [start, effective end), and no interval
\* reaches into the next one
NonOverlapping(its) ==
  \A i \in 1..Len(its) :
     /\ HasEnd(its[i])
     /\ its[i].start_ms <= EffectiveEnd(its[i])
     /\ i < Len(its) => EffectiveEnd(its[i]) <= its[i + 1].start_ms

\* the items whose half-open interval contains t
Containing(its, t) ==
  {i \in 1..Len(its) : its[i].start_ms <= t /\ t < EffectiveEnd(its[i])}

\* the reference: a scan of the whole track
LinearScan(its, t) ==
  IF Containing(its, t) # {}
  THEN (CHOOSE i \in Containing(its, t) : TRUE) - 1
  ELSE IF Len(its) > 0 /\ t = EffectiveEnd(its[Len(its)])
       THEN Len(its) - 1
       ELSE NoItem

\* C16: on a track sorted by start whose intervals do not overlap,
\* findItemAtTime returns the one item whose half-open interval contains t,
\* the last item when t is the last item's effective end, and nothing
\* otherwise, as a linear scan does.
FindAgreesWithScan ==
  (Probed /\ NonOverlapping(probe.items)) =>
     /\ Cardinality(Containing(probe.items, probe.t)) <= 1
     /\ probe.found = LinearScan(probe.items, probe.t)

\* a track of three items was searched at the end of its last item, which
\* was returned
TerminalBoundaryFound ==
  /\ Probed
  /\ NonOverlapping(probe.items)
  /\ Len(probe.items) = 3
  /\ probe.items[1].start_ms < probe.items[2].start_ms
  /\ probe.items[2].start_ms < probe.items[3].start_ms
  /\ probe.t = EffectiveEnd(probe.items[3])
  /\ probe.t > probe.items[3].start_ms
  /\ probe.found = 2

\* the duration of an item that gives it, or gives its end
ItemDuration(item) ==
  IF item.duration_ms # 0 THEN item.duration_ms ELSE item.end_ms - item.start_ms

KnownDuration(item) ==
  item.duration_ms # 0 \/ (item.end_ms # 0 /\ item.end_ms > item.start_ms)

\* C17 as stated: for an item whose duration is known the relative time lies
\* in [0, duration], is 0 before the start, is t - start inside the span and
\* does not decrease with t.
RelativeTimeClamped ==
  (Probed /\ Len(probe.items) > 0 /\ KnownDuration(probe.items[1])) =>
     LET item == probe.items[1]
         dur  == ItemDuration(item)
     IN /\ probe.rel >= 0
        /\ probe.rel <= dur
        /\ probe.t < item.start_ms => probe.rel = 0
        /\ (item.start_ms <= probe.t /\ probe.t <= item.start_ms + dur)
              => probe.rel = probe.t - item.start_ms
        /\ \A t1 \in ProbeTimes :
              t1 <= probe.t => calculateItemRelativeTime(item, t1) <= probe.rel

\* C18 as stated: an item that gives neither its end nor its duration is
\* never returned by findItemAtTime.
OpenEndedNeverFound ==
  (Probed /\ probe.found # NoItem) => HasEnd(probe.items[probe.found + 1])

\* ------------------------------------------------------------------------
\* Properties of playback
\* ------------------------------------------------------------------------
\* C9 as stated, in the form a finite run refutes: the position advances only
\* in update(), so whenever the clock is playing before the end, no seek is in
\* flight and the video has not reported for more than 500 ms, an animation
\* frame is requested
FallbackArmed ==
  (/\ isPlaying
   /\ ~isSeeking
   /\ currentTime < duration
   /\ now - lastVideoUpdateTime > VIDEO_STALE) => rafPending

\* C10 as stated, in the form a finite run refutes: the end is detected only
\* in update(), so whenever the clock is playing with its position at the
\* duration an animation frame is requested
EndDetectionArmed ==
  (isPlaying /\ ~isSeeking /\ duration > 0 /\ currentTime >= duration) => rafPending

\* ------------------------------------------------------------------------
\* Listeners

\* the last step called the listeners with an event of this type
Emitted(type) == \E i \in 1..Len(emitted) : emitted[i].type = type

\* C19: a listener that throws stops neither the delivery of an event to the
\* other subscribed listeners nor the operation that emits it: every
\* subscribed listener is called with every event of a step, play() leaves
\* both loops started and a coordinated seek ends with the seek state cleared
\* and its follow-up scheduled
ListenerIsolation ==
  /\ [](\A l \in ListenerSet(listeners) : received[l] = emitted)
  /\ [][(emitted' # <<>> /\ emitted'[1].type = "play")
          => (isPlaying' /\ animationFrameId' # NULL /\ syncInterval' # NULL)]_vars
  /\ [][(emitted' # <<>> /\ emitted'[1].type = "seek")
          => (/\ ~isSeeking' /\ seekPromise' = NULL
              /\ timers' = Append(timers, now + FOLLOWUP_DELAY))]_vars

\* the listener subscribed first throws, and the one after it was called with
\* the timeupdate of a source-driven update
ThrowerFirstOtherNotified ==
  /\ listeners = <<"l1", "l2">>
  /\ "l1" \in Throwers
  /\ opCall.op = "updateTimeFromVideo"
  /\ Emitted("timeupdate")
  /\ received["l2"] = emitted

\* ------------------------------------------------------------------------
\* Registration

\* the managers whose seek() the fan-out started by this step invokes
Invoked(f) == DOMAIN f.wrappers

\* C20: a manager of every kind is in the registration set from its
\* construction until its destroy() and in no other period, and the fan-out
\* of every coordinated seek invokes seek() of exactly the managers that are
\* constructed and not destroyed
RegisteredWhileAlive ==
  /\ [](managers = alive)
  /\ [][\A f \in fanouts' \ fanouts : Invoked(f) = alive]_vars

\* ------------------------------------------------------------------------
\* Loading the tracks

\* this step is a call of load() on manager k
LoadStep(k) == track'[k].loads = track[k].loads + 1

\* C21: load() of every manager resolves when the file of an item is missing,
\* unreadable or fails to load, and it changes no other manager
LoadAlwaysResolves ==
  /\ [](\A k \in Kinds : track[k].load # "rejected")
  /\ [][\A k \in Kinds : LoadStep(k) =>
           \A j \in Kinds \ {k} : mgr'[j] = mgr[j] /\ track'[j] = track[j]]_vars

\* C22: after load(items) the current item of every manager is the item
\* findItemAtTime(items, 0) returns, and none when no item is active at 0
LoadSelectsItemAtZero ==
  [][\A k \in Kinds : (LoadStep(k) /\ track'[k].load = "resolved") =>
        getCurrentItem(k)' = findItemAtTime(mgr'[k].items, 0)]_vars

\* ------------------------------------------------------------------------
\* Syncing the tracks

\* this step is a call of sync() on manager k
SyncStep(k) == track'[k].syncs = track[k].syncs + 1

\* the sync() of this step measured a drift
MeasuredStep(k) ==
  /\ SyncStep(k)
  /\ Len(track'[k].driftHistory) = Len(track[k].driftHistory) + 1

\* the tolerance of a manager that measures drift
ToleranceOf(k) == IF k = "video" THEN 200 ELSE 100

\* every drift manager k measured so far was below its tolerance
AlwaysBelowTolerance(k) ==
  \A i \in 1..Len(track[k].driftHistory) :
     track[k].driftHistory[i] < ToleranceOf(k)

\* C23 as stated: while every drift a manager measured in its sync calls was
\* below its tolerance, it never set the native position of its source and
\* its corrections counter is 0
BelowToleranceNeverSets ==
  \A k \in {"video", "audio"} :
     AlwaysBelowTolerance(k) =>
        track[k].sets = 0 /\ track[k].corrections = 0

\* C23 amended: a sync call that measures a drift below the tolerance of the
\* manager does not set the native position of the source and leaves the
\* corrections counter as it is, and the counter only changes in a call that
\* measured a drift above the tolerance; a sync call of VideoJsManager that
\* switches to another item measures nothing and positions the new source
BelowToleranceNotCorrected ==
  [][\A k \in {"video", "audio"} :
        /\ (MeasuredStep(k) /\ track'[k].drift < ToleranceOf(k)) =>
              /\ track'[k].sets = track[k].sets
              /\ track'[k].corrections = track[k].corrections
        /\ track'[k].corrections # track[k].corrections =>
              MeasuredStep(k) /\ track'[k].drift > ToleranceOf(k)]_vars

\* the audio manager measured a drift of 50 ms twice and corrected nothing
SmallDriftMeasured ==
  /\ track["audio"].driftHistory = <<50, 50>>
  /\ track["audio"].sets = 0
  /\ track["audio"].corrections = 0

\* the metrics of manager k are those of a new manager
MetricsReset(k) ==
  /\ track[k].drift = 0
  /\ track[k].corrections = 0
  /\ track[k].averageDrift = 0
  /\ track[k].maxDrift = 0
  /\ track[k].driftHistory = <<>>

\* C24: after load() on a manager that has accumulated metrics, drift,
\* corrections, averageDrift and maxDrift are 0 and the drift history is
\* empty
MetricsResetOnLoad ==
  [][\A k \in {"video", "audio"} : LoadStep(k) => MetricsReset(k)']_vars

\* C25, for sync: when sync(t) of a manager finds no item active at t, in a
\* gap between items or past the end of all of them, the source of the
\* manager is inactive afterwards: media paused, subtitle hidden,
\* placeholder shown
NoItemLeavesInactive ==
  [][\A k \in Kinds :
        (/\ SyncStep(k)
         /\ findItemAtTime(mgr[k].items, track'[k].syncedAt) = NoItem) =>
           ~mgr'[k].active]_vars

\* ------------------------------------------------------------------------
\* paused time
\* ------------------------------------------------------------------------
\* a frame of the update loop or a tick of the sync interval has run
TickStep == opCall'.op \in {"update", "syncTick"}

\* play() has run
PlayStep == ~isPlaying /\ isPlaying' /\ emitted' # <<>> /\ emitted'[1].type = "play"

\* C26: while isPlaying is false a tick leaves currentTime alone and emits
\* no timeupdate and no sync event, and play() keeps the position and
\* re-bases the extrapolation so that it starts from the paused position
PausedTimeNeverAdvances ==
  [][ /\ (~isPlaying /\ TickStep) =>
           /\ currentTime' = currentTime
           /\ \A i \in DOMAIN emitted' : emitted'[i].type \notin {"timeupdate", "sync"}
      /\ PlayStep =>
           /\ currentTime' = currentTime
           /\ MulRate(now' - startTime', playbackRate') = currentTime
    ]_vars

\* play() has just resumed the clock at a paused position above 0 and
\* below the end, which no report of the source has ever set
ResumedAfterPause ==
  /\ isPlaying
  /\ emitted # <<>>
  /\ emitted[1].type = "play"
  /\ emitted[1].time > 0
  /\ currentTime < duration
  /\ lastVideoUpdateTime = 0
  /\ startTime = now - currentTime
  /\ startTime > 0

\* ------------------------------------------------------------------------
\* stop
\* ------------------------------------------------------------------------
\* no coordinated seek is in flight
SeeksSettled == ~isSeeking /\ fanouts = {}

\* C27: when stop() was called and no seek is pending, the clock is not
\* playing and its position is 0
StopResetsToStart ==
  (opCall.op = "stop" /\ SeeksSettled) => (~isPlaying /\ currentTime = 0)

\* ------------------------------------------------------------------------
\* reports of the video during a seek
\* ------------------------------------------------------------------------
\* updateTimeFromVideo has run
SourceUpdateStep == opCall'.op = "updateTimeFromVideo"

\* C28: a call of updateTimeFromVideo while a coordinated seek is in flight
\* changes neither currentTime nor isPlaying nor lastJumpTime and emits no
\* event, whatever time and playing flag it reports
SourceUpdateIgnoredDuringSeek ==
  [][(SourceUpdateStep /\ fanouts # {}) =>
        /\ UNCHANGED <<currentTime, isPlaying, lastJumpTime>>
        /\ emitted' = <<>>
        /\ received' = [l \in ListenerSet(listeners) |-> <<>>]
    ]_vars

\* the video reported a time other than the target and the opposite playing
\* flag while the seek was waiting for its manager, and nothing changed
ReportDuringSeek ==
  /\ opCall.op = "updateTimeFromVideo"
  /\ \E f \in fanouts : \E m \in DOMAIN f.wrappers :
        f.wrappers[m] = "pending" /\ f.target # opCall.arg
  /\ opCall.flag # isPlaying
  /\ currentTime # opCall.arg

\* ------------------------------------------------------------------------
\* range of the position
\* ------------------------------------------------------------------------
\* C29: in every reachable state the position is on the timeline,
\* 0 <= currentTime <= duration
PositionWithinDuration == 0 <= currentTime /\ currentTime <= duration

\* ------------------------------------------------------------------------
\* scheduling of the loops
\* ------------------------------------------------------------------------
\* C30: in every reachable state a frame of the update loop is requested
\* exactly when isPlaying is true, and the sync interval is set exactly when
\* isPlaying is true
LoopsScheduledIffPlaying ==
  /\ rafPending <=> isPlaying
  /\ (syncInterval # NULL) <=> isPlaying

\* ------------------------------------------------------------------------
\* announcement of the playing flag
\* ------------------------------------------------------------------------
\* the step emits an event of the type
Announces(type) == \E i \in DOMAIN emitted' : emitted'[i].type = type

\* C31: a step that changes isPlaying from false to true emits a play
\* event, and a step that changes it from true to false emits a pause event
FlagChangesAnnounced ==
  [][ /\ (~isPlaying /\ isPlaying') => Announces("play")
      /\ (isPlaying /\ ~isPlaying') => Announces("pause")
    ]_vars

\* ------------------------------------------------------------------------
\* commands during a coordinated seek
\* ------------------------------------------------------------------------
\* C32: the seek event emitted when a coordinated seek completes carries the
\* clamped target of that seek as its time
SeekEventCarriesTarget ==
  (emitted # <<>> /\ emitted[1].type = "seek") => emitted[1].time = lastDone.target

\* a frame of the update loop runs right after a coordinated seek completed
\* with its seek event at the target, and computes the position itself
FirstTickAfterSeek ==
  /\ opCall'.op = "update"
  /\ emitted # <<>>
  /\ emitted[1].type = "seek"
  /\ emitted[1].time = lastDone.target
  /\ isPlaying
  /\ ~isSeeking
  /\ SelfDriven

\* C33: the first position a frame computes after a coordinated seek to T
\* completed is within one update interval of T
SeekLatencyNotPlayed ==
  [][FirstTickAfterSeek =>
       Abs(currentTime' - lastDone.target) <= MulRate(UI_UPDATE_INTERVAL, playbackRate)
    ]_vars

\* ------------------------------------------------------------------------
\* play and pause of a source
\* ------------------------------------------------------------------------
\* C34: when every native play promise of a manager that has its source has
\* settled, the source plays exactly if the last call was play()
LastCommandWins ==
  \A k \in {"video", "audio"} :
     (HasSource(k) /\ track[k].pending = {} /\ track[k].lastCommand # "none")
       => (~track[k].paused <=> track[k].lastCommand = "play")

\* ------------------------------------------------------------------------
\* the seek queue of VideoJsManager
\* ------------------------------------------------------------------------
\* C35: no seek of VideoJsManager settles without its seek procedure having
\* run, also after an earlier seek has failed
FailedSeekDoesNotBlock ==
  ~(lastSettled.kind = "video" /\ lastSettled.cause = "queue")

\* ------------------------------------------------------------------------
\* the item of the audio element
\* ------------------------------------------------------------------------
\* C36: when no call of loadAudioAtIndex waits for a file URL, the audio
\* element has the file of the item currentItemIndex names
IndexNamesLoadedItem ==
  (track["audio"].itemLoads > 0 /\ track["audio"].lookups = {})
     => track["audio"].srcItem = mgr["audio"].currentItemIndex

\* C37: the seek procedure of an entry of seekQueue has started only when
\* every earlier entry has settled, so at most one runs at a time and they
\* run in call order
SeeksRunInCallOrder ==
  \A i \in 1..Len(seekQueue) :
     seekQueue[i].st # "queued" =>
        \A j \in 1..(i - 1) : seekQueue[j].st \in {"fulfilled", "rejected"}

\* a second seek() was called and waits while the seek procedure of the
\* first one is loading its item
LaterSeekWaits ==
  /\ Len(seekQueue) = 2
  /\ seekQueue[1].st = "running"
  /\ seekQueue[2].st = "queued"
  /\ mgr["video"].run.phase = "load"

\* ------------------------------------------------------------------------
\* the drift metrics
\* ------------------------------------------------------------------------
\* the largest element of a sequence of drifts, 0 for the empty one
RECURSIVE MaxOf(_)
MaxOf(h) ==
  IF h = <<>> THEN 0
  ELSE IF Len(h) = 1 THEN Max(0, h[1])
  ELSE LET half == Len(h) \div 2
       IN Max(MaxOf(SubSeq(h, 1, half)), MaxOf(SubSeq(h, half + 1, Len(h))))

\* the last n elements of a sequence
LastOf(a, n) == SubSeq(a, Len(a) - n + 1, Len(a))

\* the metrics of manager k agree with the drifts it has measured
MetricsAgree(k) ==
  LET t == track[k]
      h == t.driftHistory
      a == t.samples
  IN /\ Len(h) <= MAX_DRIFT_HISTORY
     /\ h = LastOf(a, Min(Len(a), MAX_DRIFT_HISTORY))
     /\ a # <<>> =>
          /\ t.drift = a[Len(a)]
          /\ Len(h) * t.averageDrift <= SumOf(h)
          /\ SumOf(h) < Len(h) * (t.averageDrift + 1)
          /\ t.maxDrift = MaxOf(a)

\* C38: the drift history of a manager holds at most 100 samples, the most
\* recent ones; drift is the latest sample, averageDrift the mean of the
\* history (as a whole number), maxDrift the maximum of all samples, and
\* maxDrift never decreases
DriftMetricsConsistent ==
  /\ [](\A k \in {"video", "audio"} : MetricsAgree(k))
  /\ [][\A k \in {"video", "audio"} : track'[k].maxDrift >= track[k].maxDrift]_vars

\* more than 100 drifts were measured: the oldest, a large one, has left the
\* history, which holds 100 samples, the maximum still reports it and the
\* mean no longer counts it
OldestSampleDropped ==
  \E k \in {"video", "audio"} :
     /\ Len(track[k].samples) > MAX_DRIFT_HISTORY
     /\ Len(track[k].driftHistory) = MAX_DRIFT_HISTORY
     /\ track[k].samples[1] = 100
     /\ track[k].maxDrift = 100
     /\ track[k].averageDrift = 50

\* ------------------------------------------------------------------------
\* the validation of a manifest
\* ------------------------------------------------------------------------
ManifestLoaded == probe # NoProbe

\* the tracks and the items of a manifest whose tracks are an array
TracksOf(m) == {m.tracks.list[i] : i \in 1..Len(m.tracks.list)}

ItemsOf(t) == {t.items.list[j] : j \in 1..Len(t.items.list)}

\* a manifest with one of the defects that are to be rejected
Defective(m) ==
  \/ m.version \in {Undefined, ""}
  \/ ~m.duration_ms.def
  \/ m.duration_ms.n <= 0
  \/ m.tracks.kind # "array"
  \/ \E t \in TracksOf(m) :
        \/ t.id = Undefined
        \/ t.type = Undefined
        \/ t.items.kind # "array"
  \/ \E t \in TracksOf(m) : \E item \in ItemsOf(t) :
        \/ item.id = Undefined
        \/ item.file = Undefined
        \/ ~item.start_ms.def

\* C39: loading a manifest throws exactly when the manifest lacks a version,
\* has a missing or non-positive duration_ms, lacks a tracks array, has a
\* track without id, type or items or an item without id, file or start_ms;
\* items that start at 0 do not make it fail, and what is returned is never
\* a manifest that was rejected
ManifestRejectedIffDefective ==
  ManifestLoaded =>
     /\ (probe.error # "none") <=> Defective(probe.manifest)
     /\ probe.error # "none" => probe.returned = NoManifest
     /\ probe.error = "none" =>
            /\ probe.returned = updateManifestPaths(probe.manifest)
            /\ ~Defective(probe.returned)

\* a manifest with a track whose item starts at 0 was loaded and returned
ItemAtZeroAccepted ==
  /\ ManifestLoaded
  /\ probe.error = "none"
  /\ \E t \in TracksOf(probe.returned) : \E item \in ItemsOf(t) :
        item.start_ms = Number(0)

\* ------------------------------------------------------------------------
\* duplicate seeks of the video manager
\* ------------------------------------------------------------------------
\* performSeek of VideoJsManager was called and returned as a duplicate
SkippedAsDuplicate ==
  /\ track'["video"].performed # track["video"].performed
  /\ track'["video"].performed.skipped

\* C40: VideoJsManager skips a seek as a duplicate only when the call of
\* performSeek before it had the same target and began less than 100 ms
\* earlier, whatever drift corrections were applied in between
SkipsOnlyRecentRepeat ==
  [][SkippedAsDuplicate =>
        LET before == track["video"].performed
            this   == track'["video"].performed
        IN /\ before.at >= 0
           /\ before.target = this.target
           /\ this.at - before.at < MANAGER_DEBOUNCE]_vars

====
